---------------------------- MODULE Spec2Model ----------------------------
(***************************************************************************)
(* Job orchestration and streaming pipeline of the code-revive backend.    *)
(*                                                                         *)
(* The model follows src/app.py statement by statement wherever a          *)
(* statement reads or writes state shared between threads (the job         *)
(* registry job_status, the queue registry streaming_queues and the        *)
(* queue.Queue objects): every such statement is one atomic step of the    *)
(* thread that executes it, and steps of different threads interleave      *)
(* freely.  The stage functions of src/classes/utils.py and                *)
(* ReviveAgent.run_prompt of src/classes/revive_agent.py are followed as   *)
(* far as they touch the queue (through stream_callback), the agent's      *)
(* cumulative counters, or raise.                                          *)
(***************************************************************************)
EXTENDS Integers, Sequences, FiniteSets, TLC

(***************************************************************************)
(* Bounds of the model.                                                    *)
(***************************************************************************)
\* Largest number of stream_callback chunks (text deltas, tool-call lines)
\* the agent emits during one run of revive_code_task, the per-call stats
\* lines not counted.
MaxChunks == 1
\* Number of stream() requests that may be opened.
NumConsumers == 2
\* The count of late wait timeouts of a generator stops at this value.
MaxLate == 3

\* Program constant: polls of 0.1 s the stream generator waits for the queue.
max_wait == 30

Jobs == {"jobA", "jobB"}
Consumers == 1..NumConsumers

\* A queue object is identified by the job and the run of revive_code_task
\* that created it (each run executes streaming_queues[job_id] = queue.Queue()).
Runs == {1, 2}
QIds == Jobs \X Runs
NoQueue == <<"none", 0>>

NoJob == [status |-> "absent"]
Unset == -1

(***************************************************************************)
(* Stage names and messages.                                               *)
(***************************************************************************)
StepName(k) ==
    CASE k = 1 -> "Setting up R_base environment"
      [] k = 2 -> "Setting up R_old environment"
      [] k = 3 -> "Resolving dependencies"
      [] k = 4 -> "Final verification"

StageError(k) ==
    CASE k = 1 -> "R_base environment setup failed"
      [] k = 2 -> "R_old environment setup failed"
      [] k = 3 -> "Dependencies resolution failed"
      [] k = 4 -> "Verification failed"

\* The stage an Agent Invocation belongs to.  Stage 1 makes two invocations
\* (summarize_base_repo_setup, verify_if_env_is_setup_correctly), the other
\* stages one each.
StageOfInv(i) == IF i <= 2 THEN 1 ELSE i - 1
FirstInvOfStage(k) == IF k = 1 THEN 1 ELSE k + 1
Invs == 1..5

VARIABLES
    job_status,         \* job id -> Job record (NoJob before submission)
    streaming_queues,   \* job id -> queue object id, or NoQueue
    queues,             \* queue object id -> sequence of items not yet read
    worker,             \* job id -> state of the job's background thread
    consumer,           \* consumer -> state of one stream() generator
    qhist,              \* history of each queue object: see NoHistory
    started,            \* history: job id -> invocations started by the current run
    reached,            \* history: job id -> the status has been completed or failed
    revive_agent,       \* a ReviveAgent used on its own, and its run_prompt call
    fix_loop,           \* an IterativeLoop and the call in progress on it
    decoder,            \* a decoding loop applied to a given list of lines
    formatter           \* the last call of a Tool-Call Formatter

vars == <<job_status, streaming_queues, queues, worker, consumer, qhist,
          started, reached, revive_agent, fix_loop, decoder, formatter>>

\* The history of a queue object: the number of put() calls, the position
\* of the first None put (0: none), the kinds of the last two puts, and the
\* positions of the items get() returned, in the order of the get() calls.
NoHistory ==
    [nput |-> 0, sentinel_at |-> 0, lastput |-> <<"none", "none">>,
     taken |-> <<>>]

(***************************************************************************)
(* queue.Queue: an unbounded FIFO.  put appends, get removes the oldest.   *)
(***************************************************************************)
QPut_lifo(s, x) == <<x>> \o s
QPut(s, x) == Append(s, x)
QGetItem(s) == Head(s)
QGetRest_peek(s) == s
QGetRest(s) == Tail(s)

\* An item carries its kind, the stage that produced it (0: none) and, as
\* its identity, its position in the order of put() calls on its queue.
Item(kind, st, n) == [kind |-> kind, stage |-> st, n |-> n]

\* The effect of streaming_queues[job_id].put(x) by job j's worker.
Put(j, kind, st) ==
    LET q == streaming_queues[j]
        n == qhist[q].nput + 1
    IN  /\ queues' = [queues EXCEPT ![q] = QPut(@, Item(kind, st, n))]
        /\ qhist' = [qhist EXCEPT
               ![q].nput = n,
               ![q].sentinel_at = IF kind = "None" /\ @ = 0 THEN n ELSE @,
               ![q].lastput = <<@[2], kind>>]

NoPut == UNCHANGED <<queues, qhist>>

\* A queue object that neither the registry nor a generator refers to is
\* unreachable: the model forgets it.
Referenced(q, sq, cons) ==
    \/ \E j \in DOMAIN sq : sq[j] = q
    \/ \E c \in DOMAIN cons : cons[c].q = q
Collect(f, empty, sq, cons) ==
    [q \in DOMAIN f |-> IF Referenced(q, sq, cons) THEN f[q] ELSE empty]

(***************************************************************************)
(* Initial state: an empty registry, no thread running.                    *)
(***************************************************************************)
IdleWorker ==
    [pc |-> "idle", run |-> 0, stage |-> 0, inv |-> 0, emitted |-> 0,
     tool_call_count |-> 0, token_count |-> 0,
     agent |-> FALSE, total_tool_call_count |-> 0, total_token_count |-> 0,
     e |-> "none", fallback |-> FALSE]

\* late: history, the number of this generator's wait timeouts that
\* happened while the job's status was completed or failed.
IdleConsumer ==
    [pc |-> "idle", job |-> "none", q |-> NoQueue, wait_count |-> 0,
     late |-> 0]

\* Before the constructor has run.
NoObject == [pc |-> "none"]

Init ==
    /\ revive_agent = NoObject
    /\ fix_loop = NoObject
    /\ decoder = NoObject
    /\ formatter = NoObject
    /\ job_status = [j \in Jobs |-> NoJob]
    /\ streaming_queues = [j \in Jobs |-> NoQueue]
    /\ queues = [q \in QIds |-> <<>>]
    /\ worker = [j \in Jobs |-> IdleWorker]
    /\ consumer = [c \in Consumers |-> IdleConsumer]
    /\ qhist = [q \in QIds |-> NoHistory]
    /\ started = [j \in Jobs |-> {}]
    /\ reached = [j \in Jobs |-> FALSE]

W(j) == worker[j]
At(j, pc) == worker[j].pc = pc
Goto(j, pc) == worker' = [worker EXCEPT ![j].pc = pc]

\* The web application's threads do not touch the objects of the
\* command-line programs.
ToolsSame == UNCHANGED <<revive_agent, fix_loop, decoder, formatter>>
ConsumerSame == UNCHANGED consumer /\ ToolsSame
RegistrySame == UNCHANGED <<job_status, streaming_queues, reached>>

(***************************************************************************)
(* submit_job: the Job record is created queued and the thread is started. *)
(***************************************************************************)
submit_job(j) ==
    /\ At(j, "idle")
    /\ job_status[j] = NoJob
    /\ job_status' = [job_status EXCEPT ![j] =
           [status |-> "queued", current_step |-> "Queued", error |-> "none",
            total_tool_calls |-> Unset, total_tokens |-> Unset,
            weave_trace_url |-> FALSE]]
    /\ Goto(j, "w_start")
    /\ NoPut /\ ConsumerSame
    /\ UNCHANGED <<streaming_queues, started, reached>>

Terminal(st) == st \in {"completed", "failed"}

\* job_status[job_id][f] = v
SetJob_every(j, f, v) ==
    /\ job_status' = [k \in Jobs |-> IF job_status[k] = NoJob THEN NoJob
                                     ELSE [job_status[k] EXCEPT ![f] = v]]
    /\ reached' = [reached EXCEPT ![j] = @ \/ (f = "status" /\ Terminal(v))]
SetJob(j, f, v) ==
    /\ job_status' = [job_status EXCEPT ![j][f] = v]
    /\ reached' = [reached EXCEPT ![j] = @ \/ (f = "status" /\ Terminal(v))]

(***************************************************************************)
(* run_revive_task_with_weave_tracking: the thread's target.  The task is  *)
(* run through revive_code_task.call inside a try; any exception raised    *)
(* inside that try, before the task body ran (line 228, 231) or after it   *)
(* returned (lines 233-242, e.g. call.id on a call object without an id,   *)
(* the case line 237 guards against), reaches the handler, which runs      *)
(* revive_code_task again.                                                 *)
(***************************************************************************)
TaskLocals(w, fb) ==
    [w EXCEPT !.pc = "t86", !.run = @ + 1, !.stage = 0, !.inv = 0,
              !.emitted = 0, !.tool_call_count = 0, !.token_count = 0,
              !.agent = FALSE, !.total_tool_call_count = 0,
              !.total_token_count = 0, !.e = "none", !.fallback = fb]

WorkerOnly == RegistrySame /\ NoPut /\ ConsumerSame /\ UNCHANGED started

WrapperCall(j) ==
    /\ At(j, "w_start")
    /\ worker' = [worker EXCEPT ![j] = TaskLocals(@, FALSE)]
    /\ started' = [started EXCEPT ![j] = {}]
    /\ RegistrySame /\ NoPut /\ ConsumerSame

WrapperCallRaises(j) ==
    /\ At(j, "w_start")
    /\ Goto(j, "w_except")
    /\ WorkerOnly

WrapperRecordTrace(j) ==
    /\ At(j, "t_ret") /\ ~W(j).fallback
    /\ \E has_id \in BOOLEAN :
          job_status' = [job_status EXCEPT ![j].weave_trace_url = has_id]
    /\ Goto(j, "w_exit")
    /\ NoPut /\ ConsumerSame
    /\ UNCHANGED <<streaming_queues, started, reached>>

WrapperAfterCallRaises(j) ==
    /\ At(j, "t_ret") /\ ~W(j).fallback
    /\ Goto(j, "w_except")
    /\ WorkerOnly

WrapperFallback(j) ==
    /\ At(j, "w_except")
    /\ worker' = [worker EXCEPT ![j] = TaskLocals(@, TRUE)]
    /\ started' = [started EXCEPT ![j] = {}]
    /\ RegistrySame /\ NoPut /\ ConsumerSame

WrapperReturn(j) ==
    /\ At(j, "t_ret") /\ W(j).fallback
    /\ Goto(j, "w_exit")
    /\ WorkerOnly

(***************************************************************************)
(* revive_code_task, lines 86-104: status, queue creation, agent.          *)
(***************************************************************************)
TaskSetRunning(j) ==
    /\ At(j, "t86")
    /\ SetJob(j, "status", "running")
    /\ Goto(j, "t87")
    /\ NoPut /\ ConsumerSame /\ UNCHANGED <<streaming_queues, started>>

TaskSetInitializing(j) ==
    /\ At(j, "t87")
    /\ SetJob(j, "current_step", "Initializing agent")
    /\ Goto(j, "t90")
    /\ NoPut /\ ConsumerSame /\ UNCHANGED <<streaming_queues, started>>

\* streaming_queues[job_id] = queue.Queue(): a new, empty queue object
\* replaces the one a previous run of the task may have registered.
TaskCreateQueue(j) ==
    /\ At(j, "t90")
    /\ streaming_queues' = [streaming_queues EXCEPT ![j] = <<j, W(j).run>>]
    /\ queues' = Collect(queues, <<>>, streaming_queues', consumer)
    /\ qhist' = Collect(qhist, NoHistory, streaming_queues', consumer)
    /\ Goto(j, "t104")
    /\ ConsumerSame /\ UNCHANGED <<job_status, started, reached>>

\* ReviveAgent(model=...): __init__ verifies the CLI and zeroes the counters.
TaskAgentInit(j) ==
    /\ At(j, "t104")
    /\ worker' = [worker EXCEPT ![j].pc = "s_step", ![j].agent = TRUE,
                                ![j].stage = 1]
    /\ WorkerOnly

\* _verify_cursor_cli raises RuntimeError: "agent" never becomes a local.
TaskAgentInitRaises(j) ==
    /\ At(j, "t104")
    /\ worker' = [worker EXCEPT ![j].pc = "e_status",
                                ![j].e = "Cursor CLI not found"]
    /\ WorkerOnly

(***************************************************************************)
(* Entering a stage: current_step, then the stage-start marker.            *)
(***************************************************************************)
StageSetStep_skipped(j) ==
    /\ At(j, "s_step")
    /\ Goto(j, "s_mark")
    /\ WorkerOnly

StageSetStep(j) ==
    /\ At(j, "s_step")
    /\ SetJob(j, "current_step", StepName(W(j).stage))
    /\ Goto(j, "s_mark")
    /\ NoPut /\ ConsumerSame /\ UNCHANGED <<streaming_queues, started>>

StagePutMarker(j) ==
    /\ At(j, "s_mark")
    /\ Put(j, "marker", W(j).stage)
    /\ worker' = [worker EXCEPT ![j].pc = "rp_begin",
                                ![j].inv = FirstInvOfStage(W(j).stage)]
    /\ RegistrySame /\ ConsumerSame /\ UNCHANGED started

(***************************************************************************)
(* ReviveAgent.run_prompt with stream_callback = the job's callback.       *)
(***************************************************************************)
MarkStarted(j) ==
    started' = [started EXCEPT ![j] = @ \cup {W(j).inv}]

\* Popen succeeds; the per-call counters start at 0.
RunPromptBegin(j) ==
    /\ At(j, "rp_begin")
    /\ MarkStarted(j)
    /\ worker' = [worker EXCEPT ![j].pc = "rp_loop",
                                ![j].tool_call_count = 0,
                                ![j].token_count = 0]
    /\ RegistrySame /\ NoPut /\ ConsumerSame

\* Popen raises FileNotFoundError, re-raised as RuntimeError.
RunPromptSpawnFails(j) ==
    /\ At(j, "rp_begin")
    /\ MarkStarted(j)
    /\ worker' = [worker EXCEPT ![j].pc = "e_status",
                                ![j].e = "Cursor CLI not found"]
    /\ RegistrySame /\ NoPut /\ ConsumerSame

\* One stdout line that yields a chunk: a text delta (counted towards the
\* length-based token estimate, one token per delta) or the description of
\* a started tool call (counted as a tool call).
RunPromptChunk(j) ==
    /\ At(j, "rp_loop")
    /\ W(j).emitted < MaxChunks
    /\ \E kind \in {"text", "tool"} :
          /\ Put(j, kind, W(j).stage)
          /\ worker' = [worker EXCEPT
                 ![j].emitted = @ + 1,
                 ![j].tool_call_count = IF kind = "tool" THEN @ + 1 ELSE @,
                 ![j].token_count = IF kind = "text" THEN @ + 1 ELSE @]
    /\ RegistrySame /\ ConsumerSame /\ UNCHANGED started

\* A line that parses as JSON but not as the event schema raises inside the
\* loop (re-raised as RuntimeError "Unexpected error occurred: ...").
RunPromptLineRaises(j) ==
    /\ At(j, "rp_loop")
    /\ worker' = [worker EXCEPT ![j].pc = "e_status",
                                ![j].e = "Unexpected error occurred: line"]
    /\ WorkerOnly

\* End of stdout: the counters are accumulated and the stats line is sent
\* to the callback (lines 248-264).
RunPromptStats(j) ==
    /\ At(j, "rp_loop")
    /\ Put(j, "stats", W(j).stage)
    /\ worker' = [worker EXCEPT
           ![j].pc = "rp_wait",
           ![j].total_tool_call_count = @ + W(j).tool_call_count,
           ![j].total_token_count = @ + W(j).token_count,
           ![j].tool_call_count = 0, ![j].token_count = 0]
    /\ RegistrySame /\ ConsumerSame /\ UNCHANGED started

\* process.wait returns and the exit status is 0.
RunPromptReturn(j) ==
    /\ At(j, "rp_wait")
    /\ Goto(j, "post")
    /\ WorkerOnly

\* process.wait times out (the process is killed) or the exit status is
\* not 0: the RuntimeError raised at line 278 or 272 is caught by the outer
\* "except Exception" and raised again with the prefix of line 294.
RunPromptExitFails(j) ==
    /\ At(j, "rp_wait")
    /\ \E msg \in {"Unexpected error occurred: Command timed out",
                   "Unexpected error occurred: Cursor CLI command failed"} :
          worker' = [worker EXCEPT ![j].pc = "e_status", ![j].e = msg]
    /\ WorkerOnly

(***************************************************************************)
(* Post-conditions of the invocations (src/classes/utils.py).  The files   *)
(* the agent was asked to write are the environment's choice.              *)
(*   invocation 1: verify_base_repo_setup, os.path.exists of three files   *)
(*   invocation 2: agent_summary.txt holds the r_base success marker       *)
(*   invocation 3: summarize_r_old.md and test_old.sh exist, else raise    *)
(*   invocation 4: agent_summary.txt holds the r_old success marker        *)
(*   invocation 5: final_summary.txt holds both success markers            *)
(***************************************************************************)
OpenMissing(i) ==
    IF i = 5 THEN "No such file: final_summary.txt"
             ELSE "No such file: agent_summary.txt"

\* What the post-condition raises, per invocation.
PostExceptions(i) ==
    CASE i = 1 -> {}
      [] i = 3 -> {"Summarize_r_old.md not created", "Test_old.sh not created"}
      [] OTHER -> {OpenMissing(i)}

\* The error the Orchestrator records when the stage returns false.
FalseErrors(i) ==
    CASE i \in {1, 2} -> {StageError(1)}
      [] i = 3 -> {}
      [] i = 4 -> {StageError(3)}
      [] i = 5 -> {"Verification failed - Base: False, Old: False",
                   "Verification failed - Base: False, Old: True",
                   "Verification failed - Base: True, Old: False"}

PostRaises(j) ==
    /\ At(j, "post")
    /\ \E msg \in PostExceptions(W(j).inv) :
          worker' = [worker EXCEPT ![j].pc = "e_status", ![j].e = msg]
    /\ WorkerOnly

\* After a post-condition that holds: the stage's next invocation, the next stage,
\* or completion.
PostOkNext(w) ==
    CASE w.inv = 1 -> [w EXCEPT !.pc = "rp_begin", !.inv = 2]
      [] w.inv = 5 -> [w EXCEPT !.pc = "c_status"]
      [] OTHER     -> [w EXCEPT !.pc = "s_step", !.stage = @ + 1]

PostFalse_goes_on(j) ==
    /\ At(j, "post")
    /\ \E msg \in FalseErrors(W(j).inv) :
          worker' = [worker EXCEPT ![j] = [PostOkNext(@) EXCEPT !.e = msg]]
    /\ WorkerOnly

\* The stage function returns a false value: lines 113, 126, 144, 165.
PostFalse(j) ==
    /\ At(j, "post")
    /\ \E msg \in FalseErrors(W(j).inv) :
          worker' = [worker EXCEPT ![j].pc = "f_status", ![j].e = msg]
    /\ WorkerOnly

\* The post-condition holds.
PostOk(j) ==
    /\ At(j, "post")
    /\ worker' = [worker EXCEPT ![j] = PostOkNext(@)]
    /\ WorkerOnly

(***************************************************************************)
(* A stage returned false: status, error, sentinel, return.                *)
(***************************************************************************)
FailSetStatus(j) ==
    /\ At(j, "f_status")
    /\ SetJob(j, "status", "failed")
    /\ Goto(j, "f_error")
    /\ NoPut /\ ConsumerSame /\ UNCHANGED <<streaming_queues, started>>

FailSetError(j) ==
    /\ At(j, "f_error")
    /\ SetJob(j, "error", W(j).e)
    /\ Goto(j, "f_put")
    /\ NoPut /\ ConsumerSame /\ UNCHANGED <<streaming_queues, started>>

FailPutSentinel_noreturn(j) ==
    /\ At(j, "f_put")
    /\ Put(j, "None", 0)
    /\ worker' = [worker EXCEPT ![j].pc = IF W(j).stage < 4 THEN "s_step"
                                                            ELSE "c_status",
                                ![j].stage = IF @ < 4 THEN @ + 1 ELSE @]
    /\ RegistrySame /\ ConsumerSame /\ UNCHANGED started

FailPutSentinel(j) ==
    /\ At(j, "f_put")
    /\ Put(j, "None", 0)
    /\ Goto(j, "t_ret")
    /\ RegistrySame /\ ConsumerSame /\ UNCHANGED started

(***************************************************************************)
(* All four stages succeeded: lines 178-198.                               *)
(***************************************************************************)
DoneSetStatus(j) ==
    /\ At(j, "c_status")
    /\ SetJob(j, "status", "completed")
    /\ Goto(j, "c_step")
    /\ NoPut /\ ConsumerSame /\ UNCHANGED <<streaming_queues, started>>

DoneSetStep(j) ==
    /\ At(j, "c_step")
    /\ SetJob(j, "current_step", "All tasks completed successfully")
    /\ Goto(j, "c_tc")
    /\ NoPut /\ ConsumerSame /\ UNCHANGED <<streaming_queues, started>>

DoneSetToolCalls(j) ==
    /\ At(j, "c_tc")
    /\ SetJob(j, "total_tool_calls", W(j).total_tool_call_count)
    /\ Goto(j, "c_tk")
    /\ NoPut /\ ConsumerSame /\ UNCHANGED <<streaming_queues, started>>

DoneSetTokens(j) ==
    /\ At(j, "c_tk")
    /\ SetJob(j, "total_tokens", W(j).total_token_count)
    /\ Goto(j, "c_final")
    /\ NoPut /\ ConsumerSame /\ UNCHANGED <<streaming_queues, started>>

DonePutFinalStats_omitted(j) ==
    /\ At(j, "c_final")
    /\ Goto(j, "c_put")
    /\ WorkerOnly

DonePutFinalStats(j) ==
    /\ At(j, "c_final")
    /\ Put(j, "final", 0)
    /\ Goto(j, "c_put")
    /\ RegistrySame /\ ConsumerSame /\ UNCHANGED started

DonePutSentinel(j) ==
    /\ At(j, "c_put")
    /\ Put(j, "None", 0)
    /\ Goto(j, "t_ret")
    /\ RegistrySame /\ ConsumerSame /\ UNCHANGED started

(***************************************************************************)
(* except Exception as e: lines 200-216.                                   *)
(***************************************************************************)
ExcSetStatus(j) ==
    /\ At(j, "e_status")
    /\ SetJob(j, "status", "failed")
    /\ Goto(j, "e_error")
    /\ NoPut /\ ConsumerSame /\ UNCHANGED <<streaming_queues, started>>

\* error = str(e); then the stats branch only if "agent" is a local.
ExcSetError(j) ==
    /\ At(j, "e_error")
    /\ SetJob(j, "error", W(j).e)
    /\ Goto(j, IF W(j).agent THEN "e_tc" ELSE "e_put")
    /\ NoPut /\ ConsumerSame /\ UNCHANGED <<streaming_queues, started>>

ExcSetToolCalls(j) ==
    /\ At(j, "e_tc")
    /\ SetJob(j, "total_tool_calls", W(j).total_tool_call_count)
    /\ Goto(j, "e_tk")
    /\ NoPut /\ ConsumerSame /\ UNCHANGED <<streaming_queues, started>>

ExcSetTokens(j) ==
    /\ At(j, "e_tk")
    /\ SetJob(j, "total_tokens", W(j).total_token_count)
    /\ Goto(j, "e_stats")
    /\ NoPut /\ ConsumerSame /\ UNCHANGED <<streaming_queues, started>>

\* if job_id in streaming_queues: put the "STATS BEFORE FAILURE" chunk.
ExcPutStats(j) ==
    /\ At(j, "e_stats")
    /\ IF streaming_queues[j] # NoQueue THEN Put(j, "failstats", 0) ELSE NoPut
    /\ Goto(j, "e_put")
    /\ RegistrySame /\ ConsumerSame /\ UNCHANGED started

ExcPutSentinel_skipped(j) ==
    /\ At(j, "e_put")
    /\ Goto(j, "t_ret")
    /\ WorkerOnly

\* if job_id in streaming_queues: put(None).
ExcPutSentinel(j) ==
    /\ At(j, "e_put")
    /\ IF streaming_queues[j] # NoQueue THEN Put(j, "None", 0) ELSE NoPut
    /\ Goto(j, "t_ret")
    /\ RegistrySame /\ ConsumerSame /\ UNCHANGED started

\* One step of run_revive_task_with_weave_tracking while the tracked call
\* has not returned, or of its handler.
WrapperStep(j) ==
    \/ WrapperCall(j) \/ WrapperCallRaises(j) \/ WrapperRecordTrace(j)
    \/ WrapperFallback(j) \/ WrapperReturn(j)

\* One step of revive_code_task, the agent's own chunks left out.
TaskStep(j) ==
    \/ TaskSetRunning(j) \/ TaskSetInitializing(j) \/ TaskCreateQueue(j)
    \/ TaskAgentInit(j) \/ TaskAgentInitRaises(j)
    \/ StageSetStep(j) \/ StagePutMarker(j)
    \/ RunPromptBegin(j) \/ RunPromptSpawnFails(j)
    \/ RunPromptLineRaises(j) \/ RunPromptStats(j) \/ RunPromptReturn(j)
    \/ RunPromptExitFails(j)
    \/ PostRaises(j) \/ PostFalse(j) \/ PostOk(j)
    \/ FailSetStatus(j) \/ FailSetError(j) \/ FailPutSentinel(j)
    \/ DoneSetStatus(j) \/ DoneSetStep(j) \/ DoneSetToolCalls(j)
    \/ DoneSetTokens(j) \/ DonePutFinalStats(j) \/ DonePutSentinel(j)
    \/ ExcSetStatus(j) \/ ExcSetError(j) \/ ExcSetToolCalls(j)
    \/ ExcSetTokens(j) \/ ExcPutStats(j) \/ ExcPutSentinel(j)

(***************************************************************************)
(* stream(job_id) and its generator, lines 559-608.  Each yield of the     *)
(* generator is one event of the response.  The generator's position tells *)
(* the last event it yielded: "hb" after a heartbeat, "done" after [DONE], *)
(* "error" after the ERROR event; a data event leaves it at "get".         *)
(***************************************************************************)
C(c) == consumer[c]
WorkerSame ==
    /\ UNCHANGED <<job_status, streaming_queues, worker, started, reached>>
    /\ ToolsSame

\* 404 unless the job is in the registry; else the generator starts.
stream(c, j) ==
    /\ C(c).pc = "idle"
    /\ job_status[j] # NoJob
    /\ consumer' = [consumer EXCEPT ![c].pc = "wait", ![c].job = j]
    /\ WorkerSame /\ NoPut

\* while job_id not in streaming_queues and wait_count < max_wait: sleep.
GenWaitPoll(c) ==
    /\ C(c).pc = "wait"
    /\ streaming_queues[C(c).job] = NoQueue
    /\ C(c).wait_count < max_wait
    /\ consumer' = [consumer EXCEPT ![c].wait_count = @ + 1]
    /\ WorkerSame /\ NoPut

\* The loop condition is false.  wait_count is not read again.
GenWaitExit(c) ==
    /\ C(c).pc = "wait"
    /\ ~(streaming_queues[C(c).job] = NoQueue /\ C(c).wait_count < max_wait)
    /\ consumer' = [consumer EXCEPT ![c].pc = "chk", ![c].wait_count = 0]
    /\ WorkerSame /\ NoPut

GenNoQueue_done(c) ==
    /\ C(c).pc = "chk"
    /\ streaming_queues[C(c).job] = NoQueue
    /\ consumer' = [consumer EXCEPT ![c].pc = "done"]
    /\ WorkerSame /\ NoPut

\* if job_id not in streaming_queues: yield the ERROR event and return.
GenNoQueue(c) ==
    /\ C(c).pc = "chk"
    /\ streaming_queues[C(c).job] = NoQueue
    /\ consumer' = [consumer EXCEPT ![c].pc = "error"]
    /\ WorkerSame /\ NoPut

\* q = streaming_queues[job_id]
GenBind(c) ==
    /\ C(c).pc = "chk"
    /\ streaming_queues[C(c).job] # NoQueue
    /\ consumer' = [consumer EXCEPT ![c].pc = "get",
                                    ![c].q = streaming_queues[C(c).job]]
    /\ WorkerSame /\ NoPut

\* The generator returned: its reference to the queue is dropped.
Close(c, pc) ==
    /\ consumer' = [consumer EXCEPT ![c].pc = pc, ![c].q = NoQueue]

\* q.get(timeout=1.0) returns an item: [DONE] for None, else one data event.
GenGet(c) ==
    /\ C(c).pc = "get"
    /\ queues[C(c).q] # <<>>
    /\ LET q == C(c).q
           text == QGetItem(queues[q])
           rest == [queues EXCEPT ![q] = QGetRest(@)]
           hist == [qhist EXCEPT ![q].taken = Append(@, text.n)]
       IN  /\ IF text.kind = "None" THEN Close(c, "done")
                                    ELSE UNCHANGED consumer
           /\ queues' = Collect(rest, <<>>, streaming_queues, consumer')
           /\ qhist' = Collect(hist, NoHistory, streaming_queues, consumer')
    /\ WorkerSame

\* q.get raises queue.Empty after the timeout: the heartbeat is yielded.
GenTimeout(c) ==
    /\ C(c).pc = "get"
    /\ queues[C(c).q] = <<>>
    /\ consumer' = [consumer EXCEPT
           ![c].pc = "hb",
           ![c].late = IF Terminal(job_status[C(c).job].status) /\ @ < MaxLate
                       THEN @ + 1 ELSE @]
    /\ WorkerSame /\ NoPut

GenPollStatus_completed_only(c) ==
    /\ C(c).pc = "hb"
    /\ IF job_status[C(c).job].status = "completed"
          THEN Close(c, "done")
          ELSE consumer' = [consumer EXCEPT ![c].pc = "get"]
    /\ queues' = Collect(queues, <<>>, streaming_queues, consumer')
    /\ qhist' = Collect(qhist, NoHistory, streaming_queues, consumer')
    /\ WorkerSame

GenPollStatus_any_status(c) ==
    /\ C(c).pc = "hb"
    /\ Close(c, "done")
    /\ queues' = Collect(queues, <<>>, streaming_queues, consumer')
    /\ qhist' = Collect(qhist, NoHistory, streaming_queues, consumer')
    /\ WorkerSame

\* After the heartbeat: [DONE] if the job is completed or failed.
GenPollStatus(c) ==
    /\ C(c).pc = "hb"
    /\ IF Terminal(job_status[C(c).job].status)
          THEN Close(c, "done")
          ELSE consumer' = [consumer EXCEPT ![c].pc = "get"]
    /\ queues' = Collect(queues, <<>>, streaming_queues, consumer')
    /\ qhist' = Collect(qhist, NoHistory, streaming_queues, consumer')
    /\ WorkerSame

\* One step of the generator of a stream() request that was opened.
GeneratorStep(c) ==
    \/ GenWaitPoll(c) \/ GenWaitExit(c) \/ GenNoQueue(c) \/ GenBind(c)
    \/ GenGet(c) \/ GenTimeout(c) \/ GenPollStatus(c)

ConsumerStep(c) ==
    \/ \E j \in Jobs : stream(c, j)
    \/ GeneratorStep(c)

(***************************************************************************)
(* Specifications.                                                         *)
(*                                                                         *)
(* Spec: the Job Orchestrator of one job, the whole wrapper and the        *)
(* agent's chunks, no stream open.                                         *)
(* SpecStream: one stream() generator beside the whole wrapper; every      *)
(* item it reads is put by the same put(), so the agent's own chunks are   *)
(* left to Spec.                                                           *)
(* SpecFanout: NumConsumers generators reading concurrently beside one run *)
(* of the task (the wrapper's handler runs only in place of the tracked    *)
(* call).                                                                  *)
(***************************************************************************)
TheJob == "jobA"

Next ==
    \/ submit_job(TheJob)
    \/ WrapperStep(TheJob)
    \/ WrapperAfterCallRaises(TheJob)
    \/ TaskStep(TheJob)
    \/ RunPromptChunk(TheJob)

Spec == Init /\ [][Next]_vars

NextStream ==
    \/ submit_job(TheJob)
    \/ WrapperStep(TheJob)
    \/ WrapperAfterCallRaises(TheJob)
    \/ TaskStep(TheJob)
    \/ ConsumerStep(1)

SpecStream == Init /\ [][NextStream]_vars

NextFanout ==
    \/ submit_job(TheJob)
    \/ WrapperStep(TheJob)
    \/ TaskStep(TheJob)
    \/ \E c \in Consumers : ConsumerStep(c)

SpecFanout == Init /\ [][NextFanout]_vars

(***************************************************************************)
(* Properties.                                                             *)
(***************************************************************************)
\* revive_code_task has returned (the wrapper may not have yet).
Returned(j) == W(j).pc \in {"t_ret", "w_exit"}
\* The queue object the current run of the task registered.
RunQueue(j) == <<j, W(j).run>>
\* The generator is inside its relay loop.
InLoop(c) == C(c).pc \in {"get", "hb"}

\* C1: whenever revive_code_task has returned, by whichever path (success,
\* a stage returning false, an exception), the queue that run registered
\* for the job has had the sentinel None put on it.
C1_SentinelOnReturn ==
    \A j \in Jobs :
        Returned(j) =>
            /\ streaming_queues[j] = RunQueue(j)
            /\ qhist[RunQueue(j)].sentinel_at > 0

\* The task returned through its exception handler (an agent call timed
\* out), and the queue holds the sentinel.
C1_Witness ==
    /\ At(TheJob, "t_ret")
    /\ W(TheJob).e = "Unexpected error occurred: Command timed out"
    /\ job_status[TheJob].status = "failed"
    /\ qhist[RunQueue(TheJob)].sentinel_at > 0

C5_StatusTransitions ==
    [][\A j \in Jobs :
          job_status'[j].status # job_status[j].status =>
              <<job_status[j].status, job_status'[j].status>> \in
                  {<<"absent", "queued">>, <<"queued", "running">>,
                   <<"running", "completed">>, <<"running", "failed">>}]_vars

\* C6: the status becomes completed only from the position reached after
\* all five invocations (four stages) succeeded; then, in this order, the
\* status is set, the totals are stored, the final stats are put and the
\* sentinel is put, the final stats being the put just before the sentinel.
C6_CompletionOrder ==
    /\ [](\A j \in Jobs :
            LET w == W(j)
                js == job_status[j]
                h == qhist[RunQueue(j)]
                totals == /\ js.total_tool_calls = w.total_tool_call_count
                          /\ js.total_tokens = w.total_token_count
            IN  /\ w.pc \in {"c_step", "c_tc", "c_tk", "c_final", "c_put"} =>
                       js.status = "completed" /\ h.sentinel_at = 0
                /\ w.pc \in {"c_status", "c_step", "c_tc", "c_tk", "c_final"} =>
                       h.lastput[2] # "final"
                /\ w.pc = "c_final" => totals
                /\ w.pc = "c_put" => totals /\ h.lastput[2] = "final"
                /\ (Returned(j) /\ w.e = "none") =>
                       /\ js.status = "completed"
                       /\ totals
                       /\ h.lastput = <<"final", "None">>
                       /\ h.sentinel_at = h.nput)
    /\ [][\A j \in Jobs :
            (job_status'[j].status = "completed"
                 /\ job_status[j].status # "completed") =>
                /\ At(j, "c_status")
                /\ started[j] = Invs
                /\ W(j).stage = 4
                /\ W(j).e = "none"]_vars

\* The task returned after four successful stages with one tool call
\* counted: completed, totals stored, final stats then sentinel.
C6_Witness ==
    /\ At(TheJob, "t_ret")
    /\ W(TheJob).e = "none"
    /\ job_status[TheJob].status = "completed"
    /\ job_status[TheJob].total_tool_calls = 1
    /\ qhist[RunQueue(TheJob)].lastput = <<"final", "None">>

C7_DeliveryInOrder ==
    /\ [](\A q \in QIds :
            \A a, b \in DOMAIN qhist[q].taken :
                a < b => qhist[q].taken[a] < qhist[q].taken[b])
    /\ [][\A q \in QIds :
            (qhist'[q].taken # qhist[q].taken /\ qhist'[q].taken # <<>>) =>
                /\ queues[q] # <<>>
                /\ qhist'[q].taken = Append(qhist[q].taken, Head(queues[q]).n)
                /\ queues'[q] = Tail(queues[q])]_vars

\* The generator has read three items of the first run's queue while a
\* fourth waits in it.
C7_Witness ==
    /\ C(1).pc = "get"
    /\ C(1).q = <<TheJob, 1>>
    /\ qhist[<<TheJob, 1>>].taken = <<1, 2, 3>>
    /\ queues[<<TheJob, 1>>] # <<>>

\* C8: no item (chunk or sentinel) is returned by two get() calls, whichever
\* generators make them: the positions returned are pairwise different and
\* an item that was returned is no longer in the queue.
C8_AtMostOnce ==
    \A q \in QIds :
        /\ \A a, b \in DOMAIN qhist[q].taken :
               a # b => qhist[q].taken[a] # qhist[q].taken[b]
        /\ \A i \in DOMAIN queues[q] :
               \A a \in DOMAIN qhist[q].taken :
                   queues[q][i].n # qhist[q].taken[a]

\* Two generators read the same queue: two items have been returned and
\* more wait.
C8_Witness ==
    /\ C(1).pc = "get" /\ C(2).pc = "get"
    /\ C(1).q = <<TheJob, 1>> /\ C(2).q = <<TheJob, 1>>
    /\ Len(qhist[<<TheJob, 1>>].taken) = 2
    /\ Len(queues[<<TheJob, 1>>]) >= 2

\* C9 as written: no stream of a registered job ends without [DONE].  The
\* generator that does not find the queue ends after the ERROR event.
C9_NeverEndsWithoutDone ==
    \A c \in Consumers : C(c).pc # "error"

\* C9: a stream that finds the job's queue yields [DONE] only from its
\* relay loop, which it leaves in no other way, and yields nothing after
\* it; a stream that does not find the queue after its wait yields the
\* ERROR event as its only event and ends without [DONE].
C9_DoneOrError ==
    /\ [](\A c \in Consumers :
            InLoop(c) =>
                ENABLED (GenGet(c) \/ GenTimeout(c) \/ GenPollStatus(c)))
    /\ [][\A c \in Consumers :
            /\ C(c).pc \in {"done", "error"} => consumer'[c] = consumer[c]
            /\ (consumer'[c].pc = "done" /\ C(c).pc # "done") => InLoop(c)
            /\ (consumer'[c].pc = "error" /\ C(c).pc # "error") =>
                   /\ C(c).pc = "chk"
                   /\ streaming_queues[C(c).job] = NoQueue
            /\ (C(c).pc = "chk" /\ consumer'[c] # consumer[c]) =>
                   (consumer'[c].pc = "error"
                        <=> streaming_queues[C(c).job] = NoQueue)]_vars

\* The generator read every item of the run's queue, the sentinel last,
\* and ended with [DONE].
C9_Witness ==
    /\ C(1).pc = "done"
    /\ C(1).late = 0
    /\ Returned(TheJob)
    /\ job_status[TheJob].status = "completed"
    /\ queues[RunQueue(TheJob)] = <<>>
    /\ Len(qhist[RunQueue(TheJob)].taken) = qhist[RunQueue(TheJob)].nput

C11_MarkerFirst ==
    /\ [](\A j \in Jobs :
            LET s == queues[RunQueue(j)]
            IN  /\ \A i \in started[j] :
                       \E m \in DOMAIN s :
                           s[m].kind = "marker" /\ s[m].stage = StageOfInv(i)
                /\ W(j).run > 0 =>
                       /\ \A i \in DOMAIN s :
                              (s[i].stage >= 1 /\ s[i].kind # "marker") =>
                                  \E m \in 1..(i - 1) :
                                      /\ s[m].kind = "marker"
                                      /\ s[m].stage = s[i].stage
                       /\ \A a, b \in DOMAIN s :
                              (a < b /\ s[a].kind = "marker"
                                     /\ s[b].kind = "marker") =>
                                  s[a].stage < s[b].stage)
    /\ [][\A q \in QIds :
            LET n == Len(queues'[q])
            IN  (n = Len(queues[q]) + 1 /\ queues'[q][n].kind = "marker") =>
                    /\ job_status[q[1]].current_step
                           = StepName(queues'[q][n].stage)
                    /\ job_status'[q[1]] = job_status[q[1]]]_vars

\* The queue of the first run holds the markers of stages 1, 2 and 3 and,
\* last, a text chunk of stage 3.
C11_Witness ==
    LET s == queues[<<TheJob, 1>>]
    IN  /\ Len(s) >= 7
        /\ s[Len(s)].kind = "text"
        /\ s[Len(s)].stage = 3
        /\ \E m \in DOMAIN s : s[m].kind = "marker" /\ s[m].stage = 3

\* C12: a job carries an error only while its status is failed.
C12_ErrorOnlyIfFailed ==
    \A j \in Jobs :
        (job_status[j] # NoJob /\ job_status[j].error # "none") =>
            job_status[j].status = "failed"

\* C13: when the task has returned with an agent created, total_tool_calls
\* and total_tokens hold the agent's cumulative counters, on the success
\* path, the stage-false paths and the exception path alike.
C13_TotalsPopulated ==
    \A j \in Jobs :
        (Returned(j) /\ W(j).agent) =>
            /\ job_status[j].total_tool_calls = W(j).total_tool_call_count
            /\ job_status[j].total_tokens = W(j).total_token_count

(***************************************************************************)
(* ReviveAgent (src/classes/revive_agent.py) used on its own: one agent    *)
(* object, successive run_prompt calls on it, and the cursor-agent process *)
(* of each call.  The process is the environment: it writes lines, closes  *)
(* its output, exits, or stays alive and silent.                           *)
(***************************************************************************)
\* Largest number of characters of an accumulated assistant text.
MaxText == 2
\* Largest number of output lines the agent reads over its lifetime.
MaxLines == 3
\* Largest number of run_prompt calls on the agent.
MaxCalls == 2

Chars == {"a", "b"}
Texts == UNION {[1..n -> Chars] : n \in 0..MaxText}
Prompts == {<<>>, <<" ">>, <<" ", " ">>, <<"p">>, <<" ", "p">>}
\* Lengths of a tool call's argument (path, command, pattern, query).
ArgLens == {5}
\* What the process wrote to stderr by the time it exited.
Diagnostics == {<<>>, <<"diag1", "diag2">>}

\* The keys _format_tool_call looks for, in the order it tests them.
ToolKeys == <<"readToolCall", "editToolCall", "writeToolCall", "shellToolCall",
              "lsToolCall", "grepToolCall", "codebaseSearchToolCall">>

Template(k) ==
    CASE k = "readToolCall" -> "Reading file: "
      [] k = "editToolCall" -> "Editing file: "
      [] k = "writeToolCall" -> "Writing file: "
      [] k = "shellToolCall" -> "Running command: "
      [] k = "lsToolCall" -> "Listing directory: "
      [] k = "grepToolCall" -> "Searching for: "
      [] k = "codebaseSearchToolCall" -> "Searching codebase: "

\* The part of the argument that is shown: how many of its characters, and
\* whether "..." follows them.
Display_untruncated(k, len) == [chars |-> len, dots |-> FALSE]
Display(k, len) ==
    IF k = "shellToolCall" /\ len > 80 THEN [chars |-> 77, dots |-> TRUE]
    ELSE IF k = "codebaseSearchToolCall" /\ len > 60 THEN [chars |-> 57, dots |-> TRUE]
    ELSE [chars |-> len, dots |-> FALSE]

\* _format_tool_call: the description of the first key found, as a sequence
\* of one element, or the empty sequence for None.  A tool_call payload is
\* the set of its keys and the length of the argument.
format_tool_call(tool_call) ==
    LET present == {i \in 1..Len(ToolKeys) : ToolKeys[i] \in tool_call.keys}
    IN  IF present = {} THEN <<>>
        ELSE LET i == CHOOSE m \in present : \A n \in present : m <= n
             IN  <<[template |-> Template(ToolKeys[i]),
                    shown |-> Display(ToolKeys[i], tool_call.len)]>>

\* The usage object of a line: absent, total_tokens, or completion_tokens.
Usages == {[kind |-> "none", n |-> 0], [kind |-> "total_tokens", n |-> 2],
           [kind |-> "completion_tokens", n |-> 1]}
Payloads == [keys : {{"readToolCall"}, {"shellToolCall"}, {"otherToolCall"}, {}},
             len : ArgLens]
\* The lines the process may write: JSON objects of the stream-json format,
\* lines that are not JSON, blank lines, and JSON values that are not objects.
ObjectLines ==
    [type : {"assistant"}, text : Texts, usage : Usages]
      \cup [type : {"tool_call"}, subtype : {"started", "completed"},
            tool_call : Payloads, usage : Usages]
      \cup [type : {"result"}, usage : Usages]
Lines == ObjectLines \cup {[type |-> "blank"], [type |-> "not_json"], [type |-> "not_object"]}

startswith_reversed(text, prefix) ==
    Len(text) <= Len(prefix) /\ SubSeq(prefix, 1, Len(text)) = text
startswith(text, prefix) ==
    Len(prefix) <= Len(text) /\ SubSeq(text, 1, Len(prefix)) = prefix

\* str.strip on a prompt.
RECURSIVE strip(_)
strip(p) ==
    IF p = <<>> THEN p
    ELSE IF Head(p) = " " THEN strip(Tail(p))
    ELSE IF p[Len(p)] = " " THEN strip(SubSeq(p, 1, Len(p) - 1))
    ELSE p

\* Line 144: not prompt or not prompt.strip().  None and "" are both <<>>.
EmptyPrompt_unstripped(prompt) == prompt = <<>>
EmptyPrompt(prompt) == prompt = <<>> \/ strip(prompt) = <<>>

\* Lines 290-294: the outer handler wraps whatever was raised inside the try.
Unexpected_bare(message) == <<"Unexpected error occurred">>
Unexpected(message) == <<"Unexpected error occurred: ">> \o message

RA == revive_agent
Stats(a) == <<a.last_tool_call_count, a.last_token_count,
              a.total_tool_call_count, a.total_token_count>>

\* ReviveAgent.__init__: the CLI is found and the counters start at zero, or
\* _verify_cursor_cli raises and there is no agent.
ReviveAgentInit ==
    /\ RA.pc = "none"
    /\ revive_agent' =
           [pc |-> "idle", prompt |-> <<>>, proc |-> "none", returncode |-> 0,
            stderr |-> <<>>, expired |-> FALSE, full_response |-> <<>>,
            tool_call_count |-> 0, token_count |-> 0,
            last_tool_call_count |-> 0, last_token_count |-> 0,
            total_tool_call_count |-> 0, total_token_count |-> 0,
            chunks |-> <<>>, seen |-> {}, spawned |-> 0,
            outcome |-> "none", result |-> <<>>, message |-> <<>>,
            before |-> <<0, 0, 0, 0>>, calls |-> 0, lines_read |-> 0,
            n_started |-> 0, n_completed |-> 0, usage_seen |-> FALSE]
    /\ UNCHANGED <<job_status, streaming_queues, queues, worker, consumer,
                   qhist, started, reached, fix_loop, decoder, formatter>>

ReviveAgentInitRaises ==
    /\ RA.pc = "none"
    /\ revive_agent' = [pc |-> "no_cli"]
    /\ UNCHANGED <<job_status, streaming_queues, queues, worker, consumer,
                   qhist, started, reached, fix_loop, decoder, formatter>>

AgentOnly ==
    UNCHANGED <<job_status, streaming_queues, queues, worker, consumer,
                qhist, started, reached, fix_loop, decoder, formatter>>

\* The call ends by raising.
Raise(a, type, message) ==
    [a EXCEPT !.pc = "idle", !.outcome = type, !.message = message]

\* run_prompt(prompt, timeout, stream_callback) is called; chunks, seen and
\* spawned describe the call in progress, before holds the agent's counters
\* at the time of the call.  n_started and n_completed count the tool_call
\* lines of each subtype read during the call, and usage_seen tells whether
\* a line read during the call had a usage with a token field.
run_prompt(prompt) ==
    /\ RA.pc = "idle"
    /\ RA.calls < MaxCalls
    /\ revive_agent' =
           [RA EXCEPT !.pc = "entered", !.prompt = prompt, !.proc = "none",
                      !.returncode = 0, !.stderr = <<>>, !.expired = FALSE,
                      !.full_response = <<>>, !.tool_call_count = 0,
                      !.token_count = 0, !.chunks = <<>>, !.seen = {},
                      !.spawned = 0, !.outcome = "none", !.result = <<>>,
                      !.message = <<>>, !.before = Stats(RA),
                      !.calls = @ + 1, !.n_started = 0, !.n_completed = 0,
                      !.usage_seen = FALSE]
    /\ AgentOnly

\* Lines 144-145, before the try.
RPEmptyPrompt ==
    /\ RA.pc = "entered"
    /\ EmptyPrompt(RA.prompt)
    /\ revive_agent' = Raise(RA, "ValueError", <<"Prompt cannot be empty or None">>)
    /\ AgentOnly

\* Lines 173-183: the process is started.
RPSpawn ==
    /\ RA.pc = "entered"
    /\ ~EmptyPrompt(RA.prompt)
    /\ revive_agent' = [RA EXCEPT !.pc = "read", !.proc = "open",
                                  !.spawned = @ + 1]
    /\ AgentOnly

\* Line 173 raises FileNotFoundError: lines 285-289.
RPSpawnFails ==
    /\ RA.pc = "entered"
    /\ ~EmptyPrompt(RA.prompt)
    /\ revive_agent' = Raise(RA, "RuntimeError", <<"Cursor CLI not found">>)
    /\ AgentOnly

\* Lines 194-218: the chunks an assistant line with this text produces.
TextChunk_whole(full_response, text) ==
    IF text = <<>> \/ text = full_response THEN <<>>
    ELSE <<[kind |-> "text", text |-> text]>>
TextChunk_unchanged_too(full_response, text) ==
    IF text = <<>> THEN <<>>
    ELSE IF text # full_response /\ startswith(text, full_response)
         THEN <<[kind |-> "text",
                 text |-> SubSeq(text, Len(full_response) + 1, Len(text))]>>
         ELSE <<[kind |-> "text", text |-> text]>>
TextChunk(full_response, text) ==
    IF text = <<>> \/ text = full_response THEN <<>>
    ELSE IF startswith(text, full_response)
         THEN <<[kind |-> "text",
                 text |-> SubSeq(text, Len(full_response) + 1, Len(text))]>>
         ELSE <<[kind |-> "text", text |-> text]>>

\* Lines 219-234: the chunks a tool_call line produces.
ToolChunk_every_subtype(subtype, tool_call) ==
    [i \in 1..Len(format_tool_call(tool_call)) |->
        [kind |-> "tool", info |-> format_tool_call(tool_call)[i]]]
ToolChunk(subtype, tool_call) ==
    IF subtype = "started"
    THEN [i \in 1..Len(format_tool_call(tool_call)) |->
             [kind |-> "tool", info |-> format_tool_call(tool_call)[i]]]
    ELSE <<>>

\* Lines 237-241.
TrackUsage_additive(token_count, usage) ==
    IF usage.kind = "none" THEN token_count ELSE token_count + usage.n
TrackUsage(token_count, usage) ==
    IF usage.kind = "total_tokens" THEN usage.n
    ELSE IF usage.kind = "completion_tokens" THEN token_count + usage.n
    ELSE token_count

\* What kind of line was read, for the lines that produce no chunk by rule.
Class(line) ==
    IF line.type = "tool_call" /\ line.subtype = "completed" THEN {"completed"}
    ELSE IF line.type = "tool_call" /\ format_tool_call(line.tool_call) = <<>>
         THEN {"unrecognized"}
    ELSE {}

\* Lines 224-226: the lines that count as a tool call.
CountsAsToolCall_any_subtype(line) == line.type = "tool_call"
CountsAsToolCall(line) == line.type = "tool_call" /\ line.subtype = "started"

\* Lines 188 and 243-245: a line that is blank after strip, or that
\* json.loads rejects, is passed over.
Skip_forgets(a) == [a EXCEPT !.full_response = <<>>]
Skip(a) == a

\* One pass of the loop at line 187 over a line that does not raise.
Decode(a, line) ==
    LET chunk == IF line.type = "assistant" THEN TextChunk(a.full_response, line.text)
                 ELSE IF line.type = "tool_call"
                      THEN ToolChunk(line.subtype, line.tool_call)
                      ELSE <<>>
    IN  IF line.type \in {"blank", "not_json"}
        THEN [Skip(a) EXCEPT !.lines_read = @ + 1]
        ELSE [a EXCEPT
                !.lines_read = @ + 1,
                !.full_response =
                    IF line.type = "assistant" /\ line.text # <<>> THEN line.text ELSE @,
                !.tool_call_count = IF CountsAsToolCall(line) THEN @ + 1 ELSE @,
                !.token_count = TrackUsage(@, line.usage),
                !.chunks = @ \o chunk,
                !.seen = @ \cup Class(line),
                !.n_started =
                    IF line.type = "tool_call" /\ line.subtype = "started"
                    THEN @ + 1 ELSE @,
                !.n_completed =
                    IF line.type = "tool_call" /\ line.subtype = "completed"
                    THEN @ + 1 ELSE @,
                !.usage_seen = @ \/ line.usage.kind # "none"]

RPLine(line) ==
    /\ RA.pc = "read"
    /\ RA.proc = "open"
    /\ RA.lines_read < MaxLines
    /\ line.type # "not_object"
    /\ revive_agent' = Decode(RA, line)
    /\ AgentOnly

\* A line that is JSON but not an object: json_data.get raises
\* AttributeError, which only the handler of lines 290-294 catches.  The
\* process is left running.
RPLineRaises ==
    /\ RA.pc = "read"
    /\ RA.proc = "open"
    /\ RA.lines_read < MaxLines
    /\ revive_agent' =
           Raise([RA EXCEPT !.lines_read = @ + 1], "RuntimeError",
                 Unexpected(<<"object has no attribute 'get'">>))
    /\ AgentOnly

\* Lines 248-250: the token count of the call.
EstimateTokens_never(token_count, full_response) == token_count
EstimateTokens(token_count, full_response) ==
    IF token_count = 0 /\ full_response # <<>>
    THEN Len(full_response) \div 4
    ELSE token_count

\* Lines 248-264: the output ended; estimate, store, accumulate, report.
RPStats ==
    /\ RA.pc = "read"
    /\ RA.proc \in {"closed", "exited"}
    /\ LET tokens == EstimateTokens(RA.token_count, RA.full_response)
           tc == RA.total_tool_call_count + RA.tool_call_count
           tk == RA.total_token_count + tokens
       IN  revive_agent' =
               [RA EXCEPT !.pc = "wait", !.token_count = tokens,
                          !.last_tool_call_count = RA.tool_call_count,
                          !.last_token_count = tokens,
                          !.total_tool_call_count = tc,
                          !.total_token_count = tk,
                          !.chunks = @ \o <<[kind |-> "stats",
                                             tool_calls |-> RA.tool_call_count,
                                             tokens |-> tokens,
                                             total_tool_calls |-> tc,
                                             total_tokens |-> tk]>>]
    /\ AgentOnly

\* Lines 267-274: wait returned; the exit status decides.  The RuntimeError
\* of line 272 passes through the handler of lines 290-294.
RPWait ==
    /\ RA.pc = "wait"
    /\ RA.proc = "exited"
    /\ revive_agent' =
           IF RA.returncode # 0
           THEN Raise(RA, "RuntimeError",
                      Unexpected(<<"Cursor CLI command failed: ">> \o RA.stderr))
           ELSE [RA EXCEPT !.pc = "idle", !.outcome = "returned",
                           !.result = RA.full_response]
    /\ AgentOnly

\* Lines 276-278: wait(timeout) expired, counted from line 267, so not
\* before the timeout has passed since the process was started.
RPWaitTimesOut ==
    /\ RA.pc = "wait"
    /\ RA.proc = "closed"
    /\ RA.expired
    /\ revive_agent' =
           Raise([RA EXCEPT !.proc = "killed"], "RuntimeError",
                 Unexpected(<<"Command timed out">>))
    /\ AgentOnly

\* The statements of run_prompt.
RunPromptStep ==
    \/ RPEmptyPrompt
    \/ RPSpawn
    \/ RPSpawnFails
    \/ \E line \in Lines : RPLine(line)
    \/ RPLineRaises
    \/ RPStats
    \/ RPWait
    \/ RPWaitTimesOut

InCall == RA.pc \in {"read", "wait"}

\* The process closes its standard output and keeps running.
ProcCloses ==
    /\ InCall
    /\ RA.proc = "open"
    /\ revive_agent' = [RA EXCEPT !.proc = "closed"]
    /\ AgentOnly

\* The process exits, which closes its output.
ProcExits(returncode, stderr) ==
    /\ InCall
    /\ RA.proc \in {"open", "closed"}
    /\ revive_agent' = [RA EXCEPT !.proc = "exited", !.returncode = returncode,
                                  !.stderr = stderr]
    /\ AgentOnly

\* The process stops writing without closing its output or exiting.
ProcHangs ==
    /\ InCall
    /\ RA.proc = "open"
    /\ revive_agent' = [RA EXCEPT !.proc = "silent"]
    /\ AgentOnly

\* timeout seconds have passed since the process was started.
TimeoutElapses ==
    /\ InCall
    /\ RA.proc \in {"open", "closed", "silent"}
    /\ ~RA.expired
    /\ revive_agent' = [RA EXCEPT !.expired = TRUE]
    /\ AgentOnly

NextInvoke ==
    \/ ReviveAgentInit
    \/ ReviveAgentInitRaises
    \/ \E prompt \in Prompts : run_prompt(prompt)
    \/ RunPromptStep
    \/ ProcCloses
    \/ \E returncode \in {0, 1}, stderr \in Diagnostics : ProcExits(returncode, stderr)
    \/ ProcHangs
    \/ TimeoutElapses

SpecInvoke == Init /\ [][NextInvoke]_vars

(***************************************************************************)
(* The same agent on streams chosen for the token count: assistant texts   *)
(* of 0 up to 9 characters, and usage objects that report zero.            *)
(***************************************************************************)
TokenTexts == {[i \in 1..n |-> "a"] : n \in {0, 3, 4, 9}}
TokenUsages == Usages \cup {[kind |-> "total_tokens", n |-> 0],
                            [kind |-> "completion_tokens", n |-> 0]}
TokenLines == [type : {"assistant"}, text : TokenTexts, usage : TokenUsages]
                  \cup [type : {"result"}, usage : TokenUsages]

NextTokens ==
    \/ ReviveAgentInit
    \/ run_prompt(<<"p">>)
    \/ RPSpawn
    \/ \E line \in TokenLines : RPLine(line)
    \/ RPStats
    \/ RPWait
    \/ ProcExits(0, <<>>)

SpecTokens == Init /\ [][NextTokens]_vars

(***************************************************************************)
(* Properties of run_prompt.                                               *)
(***************************************************************************)
\* C14: whatever the process does, once the timeout has passed and the
\* process is still alive, run_prompt is not blocked: it has a step to take
\* (to kill the process and fail with the timeout error).  Stated for the
\* process that stays alive without writing or closing its output.
C14_TimeoutNeverBlocked ==
    (InCall /\ RA.expired /\ RA.proc = "silent") => ENABLED RunPromptStep

\* C15: a call whose process exited with a non-zero status returns no
\* result; it ends with a RuntimeError whose message contains what the
\* process wrote to stderr.
C15_NonZeroExitFails ==
    /\ (RA.pc = "idle" /\ RA.outcome = "returned") =>
           (RA.proc = "exited" /\ RA.returncode = 0)
    /\ (RA.pc = "idle" /\ RA.outcome # "none" /\ RA.proc = "exited" /\ RA.returncode # 0) =>
           /\ RA.outcome = "RuntimeError"
           /\ RA.result = <<>>
           /\ \E i \in 1..(Len(RA.message) + 1) :
                  /\ i + Len(RA.stderr) - 1 <= Len(RA.message)
                  /\ SubSeq(RA.message, i, i + Len(RA.stderr) - 1) = RA.stderr
C15_Witness ==
    /\ RA.pc = "idle"
    /\ RA.outcome = "RuntimeError"
    /\ RA.proc = "exited"
    /\ RA.returncode = 1
    /\ RA.stderr = <<"diag1", "diag2">>
    /\ RA.message = <<"Unexpected error occurred: ", "Cursor CLI command failed: ",
                      "diag1", "diag2">>

\* C16: a call whose prompt is empty or only whitespace takes one step,
\* which raises the empty-prompt ValueError; no process was started, the
\* callback was not called, and the per-call and cumulative counters are
\* the ones the agent had when the call was made.
C16_EmptyPromptFailsAtOnce ==
    [][(RA.pc = "entered" /\ \A i \in DOMAIN RA.prompt : RA.prompt[i] = " ") =>
           /\ revive_agent'.pc = "idle"
           /\ revive_agent'.outcome = "ValueError"
           /\ revive_agent'.message = <<"Prompt cannot be empty or None">>
           /\ revive_agent'.spawned = 0
           /\ revive_agent'.chunks = <<>>
           /\ Stats(revive_agent') = Stats(RA)
           /\ Stats(revive_agent') = RA.before]_vars
C16_Witness ==
    /\ RA.pc = "idle"
    /\ RA.outcome = "ValueError"
    /\ RA.prompt = <<" ", " ">>
    /\ RA.calls = 2
    /\ RA.total_tool_call_count = 2
    /\ RA.total_token_count = 1
    /\ RA.spawned = 0

\* C17: every line read appends to what the callback has received exactly
\* the chunk that line stands for, if any: the new part of a changed
\* assistant text, or the description of a started tool call with a known
\* key.  A completed tool call or one without a known key appends nothing,
\* and the call goes on reading.
C17_CallbackInArrivalOrder ==
    [][\A line \in Lines :
           RPLine(line) =>
               LET known == {i \in 1..Len(ToolKeys) : ToolKeys[i] \in line.tool_call.keys}
                   first == CHOOSE m \in known : \A n \in known : m <= n
                   expected ==
                       IF line.type = "assistant"
                       THEN IF line.text = <<>> \/ line.text = RA.full_response THEN <<>>
                            ELSE IF startswith(line.text, RA.full_response)
                            THEN <<[kind |-> "text",
                                    text |-> SubSeq(line.text, Len(RA.full_response) + 1,
                                                    Len(line.text))]>>
                            ELSE <<[kind |-> "text", text |-> line.text]>>
                       ELSE IF line.type = "tool_call" /\ line.subtype = "started"
                                 /\ known # {}
                            THEN <<[kind |-> "tool",
                                    info |-> [template |-> Template(ToolKeys[first]),
                                              shown |-> Display(ToolKeys[first],
                                                                line.tool_call.len)]]>>
                            ELSE <<>>
               IN  /\ revive_agent'.chunks = RA.chunks \o expected
                   /\ revive_agent'.pc = "read"
                   /\ revive_agent'.outcome = "none"]_vars
C17_Witness ==
    /\ RA.pc = "read"
    /\ RA.outcome = "none"
    /\ RA.lines_read = 3
    /\ RA.seen = {"completed", "unrecognized"}
    /\ RA.chunks = <<[kind |-> "tool",
                      info |-> [template |-> "Reading file: ",
                                shown |-> [chars |-> 5, dots |-> FALSE]]]>>

(***************************************************************************)
(* IterativeLoop (src/classes/iterative_loop.py): one object, and calls of *)
(* activate_env_and_run_script and fix_errors on it, one at a time.  Its   *)
(* agent is a CursorCLIAgent, whose run_prompt returns a dict              *)
(* (src/classes/cursor_cli_agent.py, lines 283-307) or raises.             *)
(***************************************************************************)
\* Largest max_iterations an IterativeLoop is constructed with.
MaxIterations == 3
\* Largest number of calls made on the IterativeLoop.
MaxOps == 3

FL == fix_loop

\* What CursorCLIAgent.run_prompt returns: its type, and whether the
\* response text matches one of the error patterns.
Responses == [type : {"dict"}, signature : BOOLEAN]
NoResponse == [type |-> "none", signature |-> FALSE]
Raised == [type |-> "raised", signature |-> FALSE]

\* Return values: a bool, or a tuple of a bool and a text.
Bool(b) == [type |-> "bool", ok |-> b]
Tuple(b, text) == [type |-> "tuple", ok |-> b, text |-> text]
NoValue == [type |-> "none"]

\* detect_errors: response.lower() at line 110 needs a str; then the
\* patterns are searched.
detect_errors(response) ==
    IF response.type # "str" THEN "AttributeError"
    ELSE IF response.signature THEN "True"
    ELSE "False"

LoopOnly ==
    UNCHANGED <<job_status, streaming_queues, queues, worker, consumer,
                qhist, started, reached, revive_agent, decoder, formatter>>

\* IterativeLoop.__init__.
IterativeLoopInit(max_iterations) ==
    /\ FL.pc = "none"
    /\ fix_loop' = [pc |-> "idle", max_iterations |-> max_iterations,
                    iteration_count |-> 0, op |-> "none", ops |-> 0,
                    response |-> NoResponse, result |-> NoValue,
                    fix_invocations |-> 0, all_failing |-> TRUE,
                    fix_exit |-> "none", caller |-> "outside",
                    exit_status |-> "none"]
    /\ LoopOnly

\* CursorCLIAgent(model=model) raises at line 10: no object.
IterativeLoopInitRaises ==
    /\ FL.pc = "none"
    /\ fix_loop' = [pc |-> "no_cli"]
    /\ LoopOnly

\* A call starts: fix_invocations, all_failing, response and fix_exit
\* describe the call in progress.
Called(op, pc) ==
    [FL EXCEPT !.pc = pc, !.op = op, !.ops = @ + 1, !.response = NoResponse,
               !.result = NoValue, !.fix_invocations = 0,
               !.all_failing = TRUE, !.fix_exit = "none"]

activate_env_and_run_script ==
    /\ FL.pc = "idle"
    /\ FL.caller = "outside"
    /\ FL.ops < MaxOps
    /\ fix_loop' = Called("activate_env_and_run_script", "a_run")
    /\ LoopOnly

fix_errors ==
    /\ FL.pc = "idle"
    /\ FL.caller = "outside"
    /\ FL.ops < MaxOps
    /\ fix_loop' = Called("fix_errors", "f_enter")
    /\ LoopOnly

\* Line 44 returns.
ActRunPrompt(response) ==
    /\ FL.pc = "a_run"
    /\ fix_loop' = [FL EXCEPT !.pc = "a_detect", !.response = response,
                              !.all_failing = @ /\ response.signature]
    /\ LoopOnly

\* Line 44 raises: lines 75-81.
ActRunPromptRaises ==
    /\ FL.pc = "a_run"
    /\ fix_loop' = [FL EXCEPT !.pc = "idle", !.response = Raised,
                              !.all_failing = FALSE, !.result = Bool(FALSE)]
    /\ LoopOnly

\* Line 53: detect_errors raises (lines 75-81), finds errors (line 63) or
\* finds none (line 73).
ActDetect ==
    /\ FL.pc = "a_detect"
    /\ fix_loop' =
           CASE detect_errors(FL.response) = "AttributeError" ->
                    [FL EXCEPT !.pc = "idle", !.result = Bool(FALSE)]
             [] detect_errors(FL.response) = "True" ->
                    [FL EXCEPT !.pc = "f_enter"]
             [] detect_errors(FL.response) = "False" ->
                    [FL EXCEPT !.pc = "idle", !.result = Tuple(TRUE, "No errors")]
    /\ LoopOnly

\* fix_errors returns b at the line named: to its caller, which is
\* activate_env_and_run_script at line 63 (lines 65-70) or the outside.  A
\* recursive call at line 170 returns its value unchanged.
FixReturns(line, b) ==
    [FL EXCEPT !.pc = "idle", !.fix_exit = line,
               !.result = IF FL.op = "fix_errors" THEN Bool(b)
                          ELSE IF b THEN Tuple(TRUE, "No errors")
                          ELSE Tuple(FALSE, "error_details")]

\* Lines 122-130: count, then test the bound.
FixEnter ==
    /\ FL.pc = "f_enter"
    /\ fix_loop' =
           IF FL.iteration_count + 1 > FL.max_iterations
           THEN [FixReturns("130", FALSE) EXCEPT !.iteration_count = @ + 1]
           ELSE [FL EXCEPT !.pc = "f_run", !.iteration_count = @ + 1]
    /\ LoopOnly

\* Line 157 returns.
FixRunPrompt(response) ==
    /\ FL.pc = "f_run"
    /\ fix_loop' = [FL EXCEPT !.pc = "f_detect", !.response = response,
                              !.fix_invocations = @ + 1,
                              !.all_failing = @ /\ response.signature]
    /\ LoopOnly

\* Line 157 raises: lines 175-177.
FixRunPromptRaises ==
    /\ FL.pc = "f_run"
    /\ fix_loop' = [FixReturns("177", FALSE) EXCEPT
                       !.response = Raised, !.fix_invocations = @ + 1,
                       !.all_failing = FALSE]
    /\ LoopOnly

\* Line 166: detect_errors raises (lines 175-177), finds errors (line 170)
\* or finds none (line 173).
FixDetect ==
    /\ FL.pc = "f_detect"
    /\ fix_loop' =
           CASE detect_errors(FL.response) = "AttributeError" -> FixReturns("177", FALSE)
             [] detect_errors(FL.response) = "True" -> [FL EXCEPT !.pc = "f_enter"]
             [] detect_errors(FL.response) = "False" -> FixReturns("173", TRUE)
    /\ LoopOnly

\* IterativeLoop's constructor defaults.
default_max_iterations == 5

\* bool(value), as the if of line 187 takes it: a tuple of two elements is
\* true whatever it holds.
Truthy(value) == IF value.type = "tuple" THEN TRUE ELSE value.ok

\* main, lines 184-185: IterativeLoop() and loop.run(), which calls
\* activate_env_and_run_script.
main ==
    /\ FL.pc = "none"
    /\ fix_loop' = [pc |-> "a_run", max_iterations |-> default_max_iterations,
                    iteration_count |-> 0, op |-> "activate_env_and_run_script",
                    ops |-> 1, response |-> NoResponse, result |-> NoValue,
                    fix_invocations |-> 0, all_failing |-> TRUE,
                    fix_exit |-> "none", caller |-> "main",
                    exit_status |-> "none"]
    /\ LoopOnly

\* main, lines 187-192: sys.exit(0) if success else sys.exit(1).
MainExit ==
    /\ FL.pc = "idle"
    /\ FL.caller = "main"
    /\ fix_loop' = [FL EXCEPT !.pc = "exited",
                              !.exit_status = IF Truthy(FL.result) THEN "0" ELSE "1"]
    /\ LoopOnly

NextFix ==
    \/ main
    \/ MainExit
    \/ \E max_iterations \in 0..MaxIterations : IterativeLoopInit(max_iterations)
    \/ IterativeLoopInitRaises
    \/ activate_env_and_run_script
    \/ fix_errors
    \/ \E response \in Responses : ActRunPrompt(response)
    \/ ActRunPromptRaises
    \/ ActDetect
    \/ FixEnter
    \/ \E response \in Responses : FixRunPrompt(response)
    \/ FixRunPromptRaises
    \/ FixDetect

SpecFix == Init /\ [][NextFix]_vars

(***************************************************************************)
(* Properties of the fix loop.                                             *)
(***************************************************************************)
\* C18: a call of activate_env_and_run_script on a new IterativeLoop ends
\* after at most max_iterations fix invocations; if every response had a
\* failure signature it ends after exactly max_iterations fix invocations,
\* at the bound test of fix_errors, with a failure result.
C18_FixLoopTerminates ==
    (FL.pc = "idle" /\ FL.op = "activate_env_and_run_script" /\ FL.ops = 1) =>
        /\ FL.fix_invocations <= FL.max_iterations
        /\ FL.all_failing =>
               /\ FL.fix_invocations = FL.max_iterations
               /\ FL.fix_exit = "130"
               /\ FL.result = Tuple(FALSE, "error_details")

\* C19: iteration_count never exceeds max_iterations.
C19_CountWithinBound ==
    FL.pc \notin {"none", "no_cli"} => FL.iteration_count <= FL.max_iterations

\* C20: a call whose last agent invocation returned normally with no
\* failure signature ends resolved: activate_env_and_run_script returns
\* (True, "No errors") and a fix_errors called from outside returns True.
C20_NoSignatureResolves ==
    (FL.pc = "idle" /\ FL.op # "none" /\ FL.response.type \notin {"none", "raised"}
        /\ ~FL.response.signature) =>
            FL.result = IF FL.op = "fix_errors" THEN Bool(TRUE)
                        ELSE Tuple(TRUE, "No errors")

\* C21: a call of activate_env_and_run_script that ends with the bound used
\* up (as many fix invocations as max_iterations) and a failure signature in
\* every response, the last one included, returns the failure result that
\* carries the failure text, and main then exits with status 1.
C21_ExhaustedIsFailure ==
    /\ (FL.pc \in {"idle", "exited"} /\ FL.op = "activate_env_and_run_script"
          /\ FL.ops = 1 /\ FL.all_failing /\ FL.response.signature
          /\ FL.fix_invocations = FL.max_iterations) =>
             FL.result = Tuple(FALSE, "error_details")
    /\ (FL.pc = "exited" /\ FL.all_failing /\ FL.response.signature) =>
             FL.exit_status = "1"

\* C22: a call of activate_env_and_run_script ends in failure only after
\* max_iterations fix invocations have been made.
C22_FailureOnlyAtBound ==
    (FL.pc \in {"idle", "exited"} /\ FL.op = "activate_env_and_run_script"
        /\ FL.ops = 1 /\ ~FL.result.ok) =>
            FL.fix_invocations >= FL.max_iterations

(***************************************************************************)
(* The two decoding loops applied to a given list of lines: the read loop  *)
(* of run_prompt (src/classes/revive_agent.py lines 187-245, the same in   *)
(* src/classes/cursor_cli_agent.py), which takes each assistant text as    *)
(* the accumulated text, and stream_json_output                            *)
(* (src/classes/clean_logger.py lines 28-92), which takes it as a delta.   *)
(* Texts are sequences of words here; no word is the beginning of another, *)
(* so one text starts with another exactly when its words do.              *)
(***************************************************************************)
\* Largest number of lines given to a decoding loop.
MaxArrivals == 4
\* stream_json_output: cache_size.
cache_size == 15

Words == <<"Hi", " there", ",", " friend">>
DecTexts == {SubSeq(Words, 1, n) : n \in 0..Len(Words)}
                \cup {<<" there">>, <<" friend">>, <<",", " friend">>}
NoUsage == [kind |-> "none", n |-> 0]
\* Lines given to the loop of run_prompt.
PrefixLines == [type : {"assistant"}, text : DecTexts, usage : {NoUsage}]
\* Lines the loop of run_prompt passes over, and lines of the other types.
SkipLines == {[type |-> "blank"], [type |-> "not_json"]}
EventLines ==
    {[type |-> "tool_call", subtype |-> "started",
      tool_call |-> [keys |-> {"readToolCall"}, len |-> 5], usage |-> NoUsage],
     [type |-> "result", usage |-> [kind |-> "total_tokens", n |-> 2]]}
\* Lines given to stream_json_output.
LogLines ==
    PrefixLines
      \cup [type : {"tool_call"}, subtype : {"started", "completed"},
            tool_call : [keys : {{"shellToolCall"}, {"otherToolCall"}}, len : ArgLens],
            usage : {NoUsage}]
      \cup [type : {"result"}, usage : Usages]
      \cup {[type |-> "blank"], [type |-> "not_json"]}

DE == decoder

DecoderOnly ==
    UNCHANGED <<job_status, streaming_queues, queues, worker, consumer,
                qhist, started, reached, revive_agent, fix_loop, formatter>>

\* The locals before the first line: run_prompt lines 181-183,
\* stream_json_output lines 20-26.  arrivals holds the lines read so far and
\* emissions, for each of them, what it made the loop pass to the callback.
Decoding(mode) ==
    /\ DE.pc = "none"
    /\ decoder' = [pc |-> "decoding", mode |-> mode, full_response |-> <<>>,
                   tool_call_count |-> 0, token_count |-> 0, chunks |-> <<>>,
                   seen |-> {}, lines_read |-> 0, buffer |-> <<>>,
                   last_prints |-> <<>>, arrivals |-> <<>>, emissions |-> <<>>,
                   n_started |-> 0, n_completed |-> 0, usage_seen |-> FALSE,
                   tool_calls_log |-> <<>>, result |-> <<>>]
    /\ DecoderOnly

\* What one pass added to the callback's chunks.
Emission(before, after) ==
    SubSeq(after.chunks, Len(before.chunks) + 1, Len(after.chunks))

\* One pass of the loop of run_prompt.
PrefixLine(line) ==
    /\ DE.pc = "decoding"
    /\ DE.mode = "prefix"
    /\ DE.lines_read < MaxArrivals
    /\ decoder' = [Decode(DE, line) EXCEPT
                      !.arrivals = Append(@, line),
                      !.emissions = Append(@, Emission(DE, Decode(DE, line)))]
    /\ DecoderOnly

\* clean_logger.format_tool_call: as _format_tool_call, without truncation.
clean_logger_format_tool_call(tool_call) ==
    LET present == {i \in 1..Len(ToolKeys) : ToolKeys[i] \in tool_call.keys}
    IN  IF present = {} THEN <<>>
        ELSE LET i == CHOOSE m \in present : \A n \in present : m <= n
             IN  <<[template |-> Template(ToolKeys[i]),
                    shown |-> [chars |-> tool_call.len, dots |-> FALSE]]>>

\* deque(maxlen=cache_size).append
DequeAppend(deque, x) ==
    IF Len(deque) < cache_size THEN Append(deque, x)
    ELSE Append(Tail(deque), x)

\* stream_json_output lines 40-63: an assistant line with a text.
CacheText(d, text) ==
    IF d.buffer # <<>> /\ startswith(text, d.buffer)
    THEN [d EXCEPT !.chunks = Append(@, [kind |-> "newline"]),
                   !.buffer = <<>>]
    ELSE [d EXCEPT !.chunks = Append(@, [kind |-> "text", text |-> text]),
                   !.last_prints = DequeAppend(@, text),
                   !.buffer = @ \o text]

\* stream_json_output lines 28-92: one pass of the loop.  full_response is
\* the list of the stripped lines that were added to it.
LogDecode(d, line) ==
    IF line.type = "blank" THEN [d EXCEPT !.lines_read = @ + 1]
    ELSE IF line.type = "not_json"
    THEN [d EXCEPT !.lines_read = @ + 1, !.full_response = Append(@, line)]
    ELSE IF line.type = "assistant" /\ line.text = <<>>
    THEN [d EXCEPT !.lines_read = @ + 1, !.full_response = Append(@, line)]
    ELSE LET e == IF line.type = "assistant" THEN CacheText(d, line.text)
                  ELSE IF line.type = "tool_call"
                  THEN IF line.subtype = "started"
                       THEN [d EXCEPT
                               !.tool_call_count = @ + 1,
                               !.chunks = @ \o
                                   [i \in 1..Len(clean_logger_format_tool_call(line.tool_call)) |->
                                       [kind |-> "tool",
                                        info |-> clean_logger_format_tool_call(line.tool_call)[i]]]]
                       ELSE d
                  ELSE [d EXCEPT !.chunks = Append(@, [kind |-> "message"])]
         IN  [e EXCEPT !.lines_read = @ + 1,
                       !.full_response = Append(@, line),
                       !.token_count = TrackUsage(@, line.usage)]

LogLine(line) ==
    /\ DE.pc = "decoding"
    /\ DE.mode = "cache"
    /\ DE.lines_read < MaxArrivals
    /\ decoder' = [LogDecode(DE, line) EXCEPT
                      !.arrivals = Append(@, line),
                      !.emissions = Append(@, Emission(DE, LogDecode(DE, line)))]
    /\ DecoderOnly

\* The number of characters of a text, and of a stripped line: the text or
\* argument inside the shortest JSON encoding of the event, and one
\* character for a line that is not JSON.
WordLen(word) ==
    CASE word = "Hi" -> 2 [] word = " there" -> 6 [] word = "," -> 1
      [] word = " friend" -> 7
RECURSIVE TextLen(_)
TextLen(text) == IF text = <<>> THEN 0 ELSE WordLen(Head(text)) + TextLen(Tail(text))
RawLen(line) ==
    CASE line.type = "not_json" -> 1
      [] line.type = "assistant" -> 56 + TextLen(line.text)
      [] line.type = "tool_call" ->
            (IF "shellToolCall" \in line.tool_call.keys
             THEN 94 + line.tool_call.len ELSE 73)
                + (IF line.subtype = "completed" THEN 2 ELSE 0)
      [] line.type = "result" ->
            CASE line.usage.kind = "none" -> 17
              [] line.usage.kind = "total_tokens" -> 44
              [] line.usage.kind = "completion_tokens" -> 49
RECURSIVE CharLen(_)
CharLen(lines) == IF lines = <<>> THEN 0 ELSE RawLen(Head(lines)) + CharLen(Tail(lines))

\* stream_json_output lines 94-113: the lines ended; estimate, report and
\* return.
LogReturn ==
    /\ DE.pc = "decoding"
    /\ DE.mode = "cache"
    /\ LET tokens == IF DE.token_count = 0 /\ DE.full_response # <<>>
                     THEN CharLen(DE.full_response) \div 4
                     ELSE DE.token_count
       IN  decoder' =
               [DE EXCEPT
                  !.pc = "returned",
                  !.token_count = tokens,
                  !.chunks = Append(@, [kind |-> "stats",
                                        tool_calls |-> DE.tool_call_count,
                                        tokens |-> tokens]),
                  !.result = <<[tool_calls |-> DE.tool_call_count,
                                tokens |-> tokens,
                                full_response |-> DE.full_response]>>]
    /\ DecoderOnly

NextDecode ==
    \/ \E mode \in {"prefix", "cache"} : Decoding(mode)
    \/ \E line \in PrefixLines \cup SkipLines \cup EventLines : PrefixLine(line)
    \/ \E line \in LogLines : LogLine(line)
    \/ LogReturn

SpecDecode == Init /\ [][NextDecode]_vars

(***************************************************************************)
(* Properties of the decoding loops.                                       *)
(***************************************************************************)
\* C23: in the loop of run_prompt, a non-empty text T that differs from the
\* accumulated text C makes the loop emit one chunk, the part of T after C
\* when T starts with C and the whole of T otherwise, and nothing else; the
\* accumulated text becomes T.
C23_PrefixDelta ==
    [][\A line \in PrefixLines :
           (PrefixLine(line) /\ line.text # <<>> /\ line.text # DE.full_response) =>
               LET acc == DE.full_response
                   new == line.text
                   extension == Len(acc) <= Len(new) /\ \A i \in 1..Len(acc) : new[i] = acc[i]
               IN  /\ decoder'.emissions[Len(decoder'.emissions)] =
                          <<[kind |-> "text",
                             text |-> IF extension
                                      THEN [i \in 1..(Len(new) - Len(acc)) |-> new[Len(acc) + i]]
                                      ELSE new]>>
                   /\ decoder'.full_response = new]_vars
C23_Witness ==
    /\ DE.pc = "decoding"
    /\ DE.mode = "prefix"
    /\ Len(DE.arrivals) = 3
    /\ \A i \in 1..3 : DE.arrivals[i].type = "assistant"
    /\ DE.arrivals[2].text = <<"Hi", " there">>
    /\ DE.arrivals[3].text = <<" friend">>
    /\ DE.emissions[2] = <<[kind |-> "text", text |-> <<" there">>]>>
    /\ DE.emissions[3] = <<[kind |-> "text", text |-> <<" friend">>]>>
    /\ DE.full_response = <<" friend">>

\* C24: a text equal to the accumulated text makes the loop of run_prompt
\* emit nothing, and makes stream_json_output emit a single newline; in both
\* the accumulated text (full_response, buffer) stays as it was.
C24_DuplicateEmitsNothing ==
    [][\A line \in PrefixLines :
           /\ (PrefixLine(line) /\ line.text # <<>> /\ line.text = DE.full_response) =>
                  /\ decoder'.emissions[Len(decoder'.emissions)] = <<>>
                  /\ decoder'.full_response = DE.full_response
           /\ (LogLine(line) /\ line.text # <<>> /\ line.text = DE.buffer) =>
                  /\ decoder'.emissions[Len(decoder'.emissions)] = <<[kind |-> "newline"]>>
                  /\ decoder'.buffer = DE.buffer]_vars

\* C25, as the code has it: the accumulated texts "Hi", "Hi there",
\* "Hi there", "Hi there, friend" make the loop of run_prompt emit "Hi",
\* " there", nothing, and ", friend".
Scenario == <<<<"Hi">>, <<"Hi", " there">>, <<"Hi", " there">>,
              <<"Hi", " there", ",", " friend">>>>
InScenario ==
    /\ DE.pc = "decoding"
    /\ DE.mode = "prefix"
    /\ Len(DE.arrivals) = Len(Scenario)
    /\ \A i \in 1..Len(Scenario) :
           DE.arrivals[i].type = "assistant" /\ DE.arrivals[i].text = Scenario[i]
C25_ScenarioDeltas ==
    InScenario =>
        DE.emissions = <<<<[kind |-> "text", text |-> <<"Hi">>]>>,
                         <<[kind |-> "text", text |-> <<" there">>]>>,
                         <<>>,
                         <<[kind |-> "text", text |-> <<",", " friend">>]>>>>
\* C25, as stated: the last delta is " friend".
C25_ScenarioDeltasAsStated ==
    InScenario =>
        DE.emissions = <<<<[kind |-> "text", text |-> <<"Hi">>]>>,
                         <<[kind |-> "text", text |-> <<" there">>]>>,
                         <<>>,
                         <<[kind |-> "text", text |-> <<" friend">>]>>>>
C25_Witness == InScenario /\ DE.full_response = Scenario[Len(Scenario)]

\* C26: in stream_json_output, a text that starts with the non-empty buffer
\* makes the loop emit a single newline when it equals the buffer, and only
\* its part after the buffer when it is longer.
C26_CacheSuffix ==
    [][\A line \in PrefixLines :
           (LogLine(line) /\ DE.buffer # <<>> /\ Len(DE.buffer) <= Len(line.text)
               /\ \A i \in 1..Len(DE.buffer) : line.text[i] = DE.buffer[i]) =>
               decoder'.emissions[Len(decoder'.emissions)] =
                   IF line.text = DE.buffer THEN <<[kind |-> "newline"]>>
                   ELSE <<[kind |-> "text",
                           text |-> [i \in 1..(Len(line.text) - Len(DE.buffer)) |->
                                        line.text[Len(DE.buffer) + i]]]>>]_vars

(***************************************************************************)
(* Properties of the counters of run_prompt.                               *)
(***************************************************************************)
\* The counters of the call have been stored (lines 253-254).
Stored == RA.pc = "wait" \/ (RA.pc = "idle" /\ RA.outcome = "returned")

\* C27: while the lines are read the tool-call counter is the number of
\* started tool_call lines read so far, whatever else was read, and that
\* number is the tool-call count stored for the call.
C27_OnlyStartedCounts ==
    /\ RA.pc \in {"read", "wait"} => RA.tool_call_count = RA.n_started
    /\ Stored => RA.last_tool_call_count = RA.n_started
C27_Witness ==
    /\ RA.pc = "wait"
    /\ RA.n_started = 1
    /\ RA.n_completed = 2
    /\ RA.last_tool_call_count = 1

\* C28: reading a line with usage.total_tokens makes the running token
\* count that value, a line with only usage.completion_tokens adds its value
\* to the count, and a line without usage leaves the count as it was.
C28_UsageAccounting ==
    [][\A line \in TokenLines :
           RPLine(line) =>
               revive_agent'.token_count =
                   CASE line.usage.kind = "total_tokens" -> line.usage.n
                     [] line.usage.kind = "completion_tokens" ->
                            RA.token_count + line.usage.n
                     [] line.usage.kind = "none" -> RA.token_count]_vars
C28_Witness ==
    /\ RA.pc = "read"
    /\ RA.lines_read = 2
    /\ RA.usage_seen
    /\ RA.token_count = 3
    /\ RA.full_response = <<>>

\* C29: when no line of the stream had a usage, the token count of the call
\* is the length of the accumulated text divided by 4, rounded down.
C29_EstimateWithoutUsage ==
    (Stored /\ ~RA.usage_seen) =>
        /\ RA.last_token_count = Len(RA.full_response) \div 4
        /\ RA.token_count = RA.last_token_count
C29_Witness ==
    /\ RA.pc = "wait"
    /\ ~RA.usage_seen
    /\ Len(RA.full_response) = 9
    /\ RA.last_token_count = 2

\* C30: at the end of the stream the token count of the call is the running
\* count from the usage objects when a line had a usage, with no estimate
\* applied, and the estimate from the text only when no line had a usage.
C30_EstimateOnlyWithoutUsage ==
    [][(RA.pc = "read" /\ revive_agent'.pc = "wait") =>
           revive_agent'.last_token_count =
               IF RA.usage_seen THEN RA.token_count
               ELSE Len(RA.full_response) \div 4]_vars


(***************************************************************************)
(* Properties of run_prompt over whole streams.                            *)
(***************************************************************************)
\* The loop of run_prompt applied to a list of lines, from the locals d.
RECURSIVE DecodeAll(_, _)
DecodeAll(d, lines) ==
    IF lines = <<>> THEN d ELSE DecodeAll(Decode(d, Head(lines)), Tail(lines))

\* The locals of the loop before the first line (lines 181-183).
Fresh(d) ==
    [d EXCEPT !.full_response = <<>>, !.tool_call_count = 0, !.token_count = 0,
              !.chunks = <<>>, !.seen = {}, !.lines_read = 0, !.n_started = 0,
              !.n_completed = 0, !.usage_seen = FALSE]

\* A list of lines without its blank lines and its lines that are not JSON.
Kept(lines) == SelectSeq(lines, LAMBDA line : line \notin SkipLines)

\* C31: blank lines and lines that are not JSON do not affect the loop of
\* run_prompt: after any list of lines, the chunks passed to the callback,
\* the tool-call count, the token count and the accumulated text are those
\* the loop has after the same list without such lines, and the loop is
\* still running (nothing was raised).
C31_SkippedLinesChangeNothing ==
    (DE.pc = "decoding" /\ DE.mode = "prefix") =>
        LET clean == DecodeAll(Fresh(DE), Kept(DE.arrivals))
        IN  /\ DE.chunks = clean.chunks
            /\ DE.tool_call_count = clean.tool_call_count
            /\ DE.token_count = clean.token_count
            /\ DE.full_response = clean.full_response
            /\ DE.lines_read = Len(DE.arrivals)
C31_Witness ==
    /\ DE.pc = "decoding"
    /\ DE.mode = "prefix"
    /\ Len(DE.arrivals) = 4
    /\ DE.arrivals[1].type = "assistant"
    /\ DE.arrivals[2].type = "not_json"
    /\ DE.arrivals[3].type = "blank"
    /\ DE.arrivals[4].type = "assistant"
    /\ DE.chunks = <<[kind |-> "text", text |-> <<"Hi">>],
                     [kind |-> "text", text |-> <<" there">>]>>
    /\ DE.full_response = <<"Hi", " there">>


(***************************************************************************)
(* The Tool-Call Formatters, each called on a payload:                     *)
(* ReviveAgent._format_tool_call (src/classes/revive_agent.py lines        *)
(* 58-114), CursorCLIAgent._format_tool_call                               *)
(* (src/classes/cursor_cli_agent.py lines 54-110) and format_tool_call of  *)
(* src/classes/clean_logger.py (lines 115-167).  An argument is its        *)
(* length; what is displayed of it is the number of its leading characters *)
(* that are shown and whether "..." follows them.                          *)
(***************************************************************************)
\* Lengths of the argument, on both sides of 57, 60, 77 and 80.
FormatLens == {0, 5, 56, 57, 58, 60, 61, 77, 78, 80, 81, 90}
\* Key sets of a payload: each tool alone, an unknown tool, no key at all,
\* and two payloads with more than one key.
FormatKeys ==
    {{ToolKeys[i]} : i \in 1..Len(ToolKeys)}
        \cup {{"otherToolCall"}, {},
              {"shellToolCall", "codebaseSearchToolCall"},
              {"codebaseSearchToolCall", "otherToolCall"}}
FormatPayloads == [keys : FormatKeys, len : FormatLens]
Formatters == {"ReviveAgent", "CursorCLIAgent", "clean_logger"}

\* cursor_cli_agent.py lines 54-110.
CursorCLIAgent_format_tool_call(tool_call) ==
    LET present == {i \in 1..Len(ToolKeys) : ToolKeys[i] \in tool_call.keys}
    IN  IF present = {} THEN <<>>
        ELSE LET i == CHOOSE m \in present : \A n \in present : m <= n
                 k == ToolKeys[i]
             IN  <<[template |-> Template(k),
                    shown |-> IF k = "shellToolCall" /\ tool_call.len > 80
                              THEN [chars |-> 77, dots |-> TRUE]
                              ELSE IF k = "codebaseSearchToolCall" /\ tool_call.len > 60
                              THEN [chars |-> 57, dots |-> TRUE]
                              ELSE [chars |-> tool_call.len, dots |-> FALSE]]>>

FormatterOnly ==
    UNCHANGED <<job_status, streaming_queues, queues, worker, consumer,
                qhist, started, reached, revive_agent, fix_loop, decoder>>

\* One of the three functions is called on a payload and returns.
FormatCall(impl, tool_call) ==
    /\ formatter' =
           [pc |-> "returned", impl |-> impl, tool_call |-> tool_call,
            result |-> CASE impl = "ReviveAgent" -> format_tool_call(tool_call)
                         [] impl = "CursorCLIAgent" ->
                                CursorCLIAgent_format_tool_call(tool_call)
                         [] impl = "clean_logger" ->
                                clean_logger_format_tool_call(tool_call)]
    /\ FormatterOnly

NextFormat == \E impl \in Formatters, tool_call \in FormatPayloads : FormatCall(impl, tool_call)

SpecFormat == Init /\ [][NextFormat]_vars

\* The number of characters of a displayed argument.
DisplayedLen(shown) == shown.chars + (IF shown.dots THEN 3 ELSE 0)

\* C32: the formatter of either agent shows a command of more than 80
\* characters as its first 77 characters and "...", a query of more than 60
\* characters as its first 57 characters and "...", and a command or query
\* at or below the threshold whole; what is shown is never longer than 80
\* (command) or 60 (query) characters.
C32_LongArgumentsTruncated ==
    (formatter.pc = "returned" /\ formatter.impl \in {"ReviveAgent", "CursorCLIAgent"}
        /\ formatter.result # <<>>) =>
        LET r == formatter.result[1]
            len == formatter.tool_call.len
        IN  /\ r.template = "Running command: " =>
                   /\ r.shown = IF len > 80 THEN [chars |-> 77, dots |-> TRUE]
                                ELSE [chars |-> len, dots |-> FALSE]
                   /\ DisplayedLen(r.shown) <= 80
            /\ r.template = "Searching codebase: " =>
                   /\ r.shown = IF len > 60 THEN [chars |-> 57, dots |-> TRUE]
                                ELSE [chars |-> len, dots |-> FALSE]
                   /\ DisplayedLen(r.shown) <= 60
C32_Witness ==
    /\ formatter.pc = "returned"
    /\ formatter.impl = "CursorCLIAgent"
    /\ formatter.tool_call = [keys |-> {"shellToolCall"}, len |-> 81]
    /\ formatter.result = <<[template |-> "Running command: ",
                             shown |-> [chars |-> 77, dots |-> TRUE]]>>


(***************************************************************************)
(* Two jobs in parallel.  The worker of the first job takes every step it  *)
(* can; the worker of the second is scheduled only before its first stage, *)
(* which includes the whole of its run when the agent cannot be created.   *)
(***************************************************************************)
OtherJob == "jobB"
OtherScheduled == W(OtherJob).stage = 0

\* One step of the thread started for job j.
WorkerStep(j) ==
    \/ WrapperStep(j)
    \/ WrapperAfterCallRaises(j)
    \/ TaskStep(j)
    \/ RunPromptChunk(j)

NextParallel ==
    \/ \E j \in Jobs : submit_job(j)
    \/ WorkerStep(TheJob)
    \/ OtherScheduled /\ WorkerStep(OtherJob)

SpecParallel == Init /\ [][NextParallel]_vars

\* C33: a step of job j's worker, and the submission of job j, leave every
\* other job's record, its entry of streaming_queues and the contents of
\* the queue registered for it unchanged.
C33_JobsIsolated ==
    [][\A j \in Jobs : \A k \in Jobs \ {j} :
           (WorkerStep(j) \/ submit_job(j)) =>
               /\ job_status'[k] = job_status[k]
               /\ streaming_queues'[k] = streaming_queues[k]
               /\ streaming_queues[k] # NoQueue =>
                      queues'[streaming_queues[k]] = queues[streaming_queues[k]]]_vars
C33_Witness ==
    /\ job_status[TheJob].status = "completed"
    /\ job_status[OtherJob].status = "failed"
    /\ streaming_queues[TheJob] # NoQueue
    /\ streaming_queues[OtherJob] # NoQueue
    /\ qhist[streaming_queues[TheJob]].nput >= 2
    /\ qhist[streaming_queues[OtherJob]].nput >= 1
    /\ queues[streaming_queues[OtherJob]] # <<>>


(***************************************************************************)
(* Exceptions inside revive_code_task.                                     *)
(***************************************************************************)
\* The errors a stage returning false records; every other error of a job
\* is the message of an exception caught at line 200.
StageFalseErrors == UNION {FalseErrors(i) : i \in Invs}
FailedByException(j) ==
    /\ job_status[j] # NoJob
    /\ job_status[j].error \notin ({"none"} \cup StageFalseErrors)

\* C34: when an Agent Invocation or a post-condition raises, the task ends
\* with the status failed and the error the exception's message; and once
\* a job carries the message of an exception, its status stays failed, the
\* error stays, and no Agent Invocation is started for it any more.
C34_ExceptionEndsJob ==
    /\ [](\A j \in Jobs :
            (Returned(j) /\ W(j).e # "none") =>
                /\ job_status[j].status = "failed"
                /\ job_status[j].error = W(j).e)
    /\ [][\A j \in Jobs :
            FailedByException(j) =>
                /\ job_status'[j].status = "failed"
                /\ job_status'[j].error = job_status[j].error
                /\ started'[j] \subseteq started[j]]_vars


(***************************************************************************)
(* One stream() request, opened before anything is put on the job's queue, *)
(* beside one run of the task with the agent's chunks.                     *)
(***************************************************************************)
\* Nothing has been put on the queue of job j yet.
NothingPut(j) ==
    IF streaming_queues[j] = NoQueue THEN TRUE
    ELSE qhist[streaming_queues[j]].nput = 0

\* stream(job_id) is requested before the first put.
EarlyStream(c, j) ==
    /\ NothingPut(j)
    /\ stream(c, j)

NextAttached ==
    \/ submit_job(TheJob)
    \/ WrapperStep(TheJob)
    \/ TaskStep(TheJob)
    \/ RunPromptChunk(TheJob)
    \/ EarlyStream(1, TheJob)
    \/ GeneratorStep(1)

SpecAttached == Init /\ [][NextAttached]_vars

\* C35: when the single generator, attached before the first put, has
\* emitted [DONE] and the task has returned, the generator has taken every
\* item that was put on the job's queue before the sentinel, the final
\* stats and the stats before failure included.
C35_NoChunkLost ==
    \A j \in Jobs :
        (Returned(j) /\ streaming_queues[j] # NoQueue
            /\ \E c \in Consumers : C(c).pc = "done" /\ C(c).job = j) =>
            LET h == qhist[streaming_queues[j]]
            IN  \A n \in 1..(h.sentinel_at - 1) :
                    \E m \in DOMAIN h.taken : h.taken[m] = n


(***************************************************************************)
(* CursorCLIAgent.run_prompt (src/classes/cursor_cli_agent.py): the loop   *)
(* over the lines of the process (lines 191-270) and the result that is    *)
(* returned when the process exits with status 0 (lines 272-294).          *)
(***************************************************************************)
\* Lines given to the loop of CursorCLIAgent.run_prompt.
CursorLines ==
    [type : {"assistant"}, text : {<<"Hi">>}, usage : {NoUsage}]
      \cup [type : {"tool_call"}, subtype : {"started", "completed"},
            tool_call : [keys : {{"readToolCall"}, {"otherToolCall"}}, len : ArgLens],
            usage : {NoUsage}]
      \cup SkipLines

\* Lines 227-268: what a tool_call line appends to tool_calls_log.  A
\* started line is logged when the formatter describes it, a completed
\* line always.
Logged(line) ==
    IF line.subtype = "started"
    THEN IF CursorCLIAgent_format_tool_call(line.tool_call) # <<>>
         THEN <<[subtype |-> "started", tool_call |-> line.tool_call]>>
         ELSE <<>>
    ELSE IF line.subtype = "completed"
    THEN <<[subtype |-> "completed", tool_call |-> line.tool_call]>>
    ELSE <<>>

\* Lines 191-270: one pass of the loop.
CursorDecode(d, line) ==
    IF line \in SkipLines THEN [d EXCEPT !.lines_read = @ + 1]
    ELSE IF line.type = "assistant"
    THEN [d EXCEPT !.lines_read = @ + 1,
                   !.chunks = @ \o TextChunk(d.full_response, line.text),
                   !.full_response = IF line.text # <<>> THEN line.text ELSE @]
    ELSE IF line.type = "tool_call"
    THEN [d EXCEPT !.lines_read = @ + 1,
                   !.chunks = @ \o
                       IF line.subtype = "started"
                       THEN [i \in 1..Len(CursorCLIAgent_format_tool_call(line.tool_call)) |->
                                [kind |-> "tool",
                                 info |-> CursorCLIAgent_format_tool_call(line.tool_call)[i]]]
                       ELSE <<>>,
                   !.tool_calls_log = @ \o Logged(line)]
    ELSE [d EXCEPT !.lines_read = @ + 1]

CursorLine(line) ==
    /\ DE.pc = "decoding"
    /\ DE.mode = "cursor"
    /\ DE.lines_read < MaxArrivals
    /\ decoder' = [CursorDecode(DE, line) EXCEPT
                      !.arrivals = Append(@, line),
                      !.emissions = Append(@, Emission(DE, CursorDecode(DE, line)))]
    /\ DecoderOnly

\* Lines 272-294: the output ended and the process exited with status 0.
CursorReturn ==
    /\ DE.pc = "decoding"
    /\ DE.mode = "cursor"
    /\ decoder' = [DE EXCEPT
                      !.pc = "returned",
                      !.result = <<[response |-> DE.full_response,
                                    tool_calls |-> DE.tool_calls_log,
                                    tool_call_count |-> Len(DE.tool_calls_log)]>>]
    /\ DecoderOnly

NextCursor ==
    \/ Decoding("cursor")
    \/ \E line \in CursorLines : CursorLine(line)
    \/ CursorReturn

SpecCursor == Init /\ [][NextCursor]_vars

\* The tool_call lines among the lines read whose subtype is the given one
\* and which the formatter describes.
Recognized(lines, subtype) ==
    SelectSeq(lines, LAMBDA line :
        /\ line \notin SkipLines
        /\ line.type = "tool_call"
        /\ line.subtype = subtype
        /\ CursorCLIAgent_format_tool_call(line.tool_call) # <<>>)

\* Every completed line comes after a started line of the same tool call.
Paired(lines) ==
    \A i \in DOMAIN lines :
        (lines[i] \notin SkipLines /\ lines[i].type = "tool_call"
            /\ lines[i].subtype = "completed") =>
            \E m \in 1..(i - 1) :
                /\ lines[m] \notin SkipLines
                /\ lines[m].type = "tool_call"
                /\ lines[m].subtype = "started"
                /\ lines[m].tool_call = lines[i].tool_call

\* C36: for a stream in which the completed lines follow their started
\* lines, CursorCLIAgent.run_prompt records the completed lines in the
\* returned log, and the tool_call_count it returns is the number of
\* recognized started lines of the stream.
C36_EachToolCallCountedOnce ==
    (DE.pc = "returned" /\ DE.mode = "cursor" /\ Paired(DE.arrivals)) =>
        /\ \A i \in DOMAIN DE.arrivals :
               (DE.arrivals[i] \notin SkipLines /\ DE.arrivals[i].type = "tool_call"
                   /\ DE.arrivals[i].subtype = "completed") =>
                   \E m \in DOMAIN DE.result[1].tool_calls :
                       DE.result[1].tool_calls[m] =
                           [subtype |-> "completed",
                            tool_call |-> DE.arrivals[i].tool_call]
        /\ DE.result[1].tool_call_count = Len(Recognized(DE.arrivals, "started"))


(***************************************************************************)
(* Properties of what stream_json_output returns.                          *)
(***************************************************************************)
\* The assistant texts among the lines read, joined in their order.
RECURSIVE AssistantText(_)
AssistantText(lines) ==
    IF lines = <<>> THEN <<>>
    ELSE (IF Head(lines).type = "assistant" THEN Head(lines).text ELSE <<>>)
             \o AssistantText(Tail(lines))
NoUsageReported(lines) ==
    \A i \in DOMAIN lines :
        lines[i].type \in {"blank", "not_json"} \/ lines[i].usage.kind = "none"

\* C37: the full_response stream_json_output returns is the assistant text
\* of the stream: no line that is not JSON and no tool_call line is part of
\* it, it has the characters of the assistant texts and none of the JSON
\* around them, and when no line reported a usage the returned token count
\* is the length of that text divided by 4.
C37_ReturnsAssistantText ==
    (DE.pc = "returned" /\ DE.mode = "cache") =>
        LET r == DE.result[1]
            text == AssistantText(DE.arrivals)
        IN  /\ \A i \in DOMAIN r.full_response :
                   r.full_response[i].type = "assistant"
            /\ CharLen(r.full_response) = TextLen(text)
            /\ NoUsageReported(DE.arrivals) => r.tokens = TextLen(text) \div 4


(***************************************************************************)
(* Properties of the cumulative counters of ReviveAgent.                   *)
(***************************************************************************)
\* ReviveAgent.get_total_stats
get_total_stats(a) ==
    [tool_calls |-> a.total_tool_call_count, tokens |-> a.total_token_count]

\* C38: when a run_prompt call has ended, get_total_stats is what it was
\* before the call plus the call's tool-call and token counts if the call
\* returned a result, and what it was before the call if the call raised
\* (non-zero exit, timeout, empty prompt); so the totals are the sum over
\* the calls that returned, and they never decrease.
C38_TotalsOfReturnedCalls ==
    (RA.pc = "idle" /\ RA.outcome # "none") =>
        LET before == [tool_calls |-> RA.before[3], tokens |-> RA.before[4]]
        IN  IF RA.outcome = "returned"
            THEN get_total_stats(RA) =
                     [tool_calls |-> before.tool_calls + RA.last_tool_call_count,
                      tokens |-> before.tokens + RA.last_token_count]
            ELSE get_total_stats(RA) = before


(***************************************************************************)
(* The text deltas of run_prompt against the text it returns.              *)
(***************************************************************************)
\* The texts of the text chunks passed to the callback, joined in order.
RECURSIVE Deltas(_)
Deltas(chunks) ==
    IF chunks = <<>> THEN <<>>
    ELSE (IF Head(chunks).kind = "text" THEN Head(chunks).text ELSE <<>>)
             \o Deltas(Tail(chunks))

\* The non-empty assistant texts of the lines, each of which starts with
\* the ones before it.
IsText(line) ==
    IF line \in SkipLines THEN FALSE
    ELSE IF line.type = "assistant" THEN line.text # <<>> ELSE FALSE
Accumulating(lines) ==
    \A i \in DOMAIN lines : \A m \in DOMAIN lines :
        (i < m /\ IsText(lines[i]) /\ IsText(lines[m])) =>
            /\ Len(lines[i].text) <= Len(lines[m].text)
            /\ \A n \in 1..Len(lines[i].text) : lines[m].text[n] = lines[i].text[n]

\* C39, as the code has it: for a stream in which every assistant text
\* starts with the assistant texts before it, the text deltas passed to
\* the callback, joined in order, are the text run_prompt accumulates and
\* returns.
C39_DeltasJoinToResponse ==
    (DE.pc = "decoding" /\ DE.mode = "prefix" /\ Accumulating(DE.arrivals)) =>
        Deltas(DE.chunks) = DE.full_response
\* C39, as stated: for every stream.
C39_DeltasJoinToResponseAsStated ==
    (DE.pc = "decoding" /\ DE.mode = "prefix") =>
        Deltas(DE.chunks) = DE.full_response
C39_Witness ==
    /\ DE.pc = "decoding"
    /\ DE.mode = "prefix"
    /\ Len(DE.arrivals) = 4
    /\ Accumulating(DE.arrivals)
    /\ DE.arrivals[3].type = "tool_call"
    /\ Len(DE.chunks) = 4
    /\ DE.chunks[1] = [kind |-> "text", text |-> <<"Hi">>]
    /\ DE.chunks[2] = [kind |-> "text", text |-> <<" there">>]
    /\ DE.chunks[4] = [kind |-> "text", text |-> <<",", " friend">>]
    /\ DE.full_response = Words


(***************************************************************************)
(* The three formatters against each other.                                *)
(***************************************************************************)
\* C40: whichever of the three formatters is called on a payload, what it
\* returns is what each of the three returns for that payload: the same
\* description, or nothing for the same payloads.
C40_FormattersAgree ==
    formatter.pc = "returned" =>
        /\ formatter.result = format_tool_call(formatter.tool_call)
        /\ formatter.result = CursorCLIAgent_format_tool_call(formatter.tool_call)
        /\ formatter.result = clean_logger_format_tool_call(formatter.tool_call)

=============================================================================
